---- MODULE Spec2Model ----
(***************************************************************************)
(* Credential and reset-token lifecycle of AuthService                     *)
(* (src/services/auth.service.ts, second class definition, lines 308-925)  *)
(* over the Prisma store of prisma/schema.prisma.                          *)
(*                                                                         *)
(* Every service method is an async function.  One action of this module   *)
(* is one await segment of a method: the effect of the store call the      *)
(* method awaited together with the synchronous code that runs when the    *)
(* call resolves, up to the next store call.  Calls of different requests  *)
(* interleave at these segments; the wall clock may advance between any    *)
(* two segments.                                                           *)
(***************************************************************************)
EXTENDS Integers, Sequences, FiniteSets, TLC

(* ---- bounds ---------------------------------------------------------- *)
NumProcs   == 2      \* concurrent requests in flight
MaxIssued  == 2      \* reset secrets drawn from the random source
MaxHours   == 1      \* the clock stops after MaxHours TTL periods ...
MaxJitter  == 1      \* ... and shows at most MaxJitter ms past a full period
MaxCalls   == 4      \* service calls started in one behaviour
MaxWeeks   == 1      \* bearer tokens are followed for MaxWeeks lifetimes
MaxSignIns == 2      \* register and login calls where tokens are verified

(* ---- program constants ----------------------------------------------- *)
TTL          == 60 * 60 * 1000   \* reset tokens live one hour (ms)
SevenDays    == 7 * 24 * 60 * 60 \* expiresIn: '7d' of bearer tokens (s)
MinPassword  == 6                \* password.length < 6 is rejected
BcryptCost   == 12               \* bcrypt.hash(password, 12)

Procs == 1..NumProcs

(* ---- inputs ---------------------------------------------------------- *)
Emails    == {"alice@example.com", "Alice@Example.com", "bob@example.com"}
Passwords == {"short", "secret1", "newpass1"}

(* a password of exactly the minimum length *)
BoundaryPasswords == {"secret"}
Names     == {"Alice"}

(* String.prototype.toLowerCase on the emails above *)
toLowerCase(e) ==
  CASE e = "Alice@Example.com" -> "alice@example.com"
    [] OTHER -> e

(* ---- outcomes: the messages of the Errors the service throws --------- *)
OK                    == "ok"
NullResult            == "null"
ErrInvalidCredentials == "Invalid email or password"
ErrDeactivated        == "Account is deactivated"
ErrConflict           == "User with this email already exists"
ErrShortPassword      == "Password must be at least 6 characters long"
ErrInvalidToken       == "Invalid or expired reset token"
ErrTokenExpired       == "Reset token has expired. Please request a new password reset."
ErrGenerateFailed     == "Failed to generate password reset token"
ErrRecordNotFound     ==
  "Invalid prisma invocation: record required but not found (P2025)"
ErrUniqueViolation    == "P2002: unique constraint failed"
ErrStoreUnavailable   == "store unavailable"
ErrUserNotFound       == "User not found"
ErrCurrentPassword    == "Current password is incorrect"
ErrShortNewPassword   == "New password must be at least 6 characters long"

(* ---- responses of the controller ------------------------------------- *)
MsgEmailRequired   == "Email is required"
MsgResetRequested  == "If the email exists, a password reset link has been sent"
MsgMailFailed      == "Failed to send password reset email. Please try again."
MsgTokenRequired   == "Token and new password are required"
MsgResetDone       ==
  "Password reset successfully. You can now login with your new password."
MsgGuidanceExpired ==
  "Reset token has expired. Please request a new password reset."
MsgGuidanceInvalid ==
  "Invalid reset token. Please request a new password reset."

(* res.status(status).json({ success, message }) *)
json(status, success, message) ==
  [via |-> "json", status |-> status, success |-> success,
   message |-> message]

(* next(error): the error is handed to the application's error handler *)
nextError(error) ==
  [via |-> "next", status |-> 0, success |-> FALSE, message |-> error]

NoResp == [via |-> "", status |-> 0, success |-> FALSE, message |-> ""]

(* String.prototype.includes *)
includes(s, sub) ==
  \E i \in 1..(Len(s) - Len(sub) + 1) : SubSeq(s, i, i + Len(sub) - 1) = sub

(* ---- the notifier ---------------------------------------------------- *)
(* how a send of EmailManager ends: the promise resolves with
   { success: true }, resolves with { success: false } (sendEmail caught the
   transport's error), or rejects (sendEmail threw, EmailManager rethrew) *)
MailOutcomes == {"sent", "failed", "thrown"}

(* the error sendEmail throws when the API key is not configured *)
ErrMailNotConfigured == "BREVO_API_KEY not found in environment variables"

(* ---- secret hasher and token codec ----------------------------------- *)
(* bcrypt.hash: a salted one-way digest; the salt is drawn at random.     *)
bcryptHash(password, salt) ==
  [alg |-> "bcrypt", cost |-> BcryptCost, salt |-> salt, of |-> password]

(* bcrypt.compare(password, digest) *)
bcryptCompare(password, digest) == digest.of = password

(* a digest that is the secret itself *)
sha256Identity(token) == token

(* crypto.createHash('sha256').update(token).digest('hex') *)
sha256(token) == "sha256:" \o token

(* crypto.randomBytes(32).toString('hex'): the i-th draw of the source *)
randomBytes(i) == "r" \o ToString(i)

(* ---- bearer tokens (jsonwebtoken) ------------------------------------ *)
DefaultSecret  == "your-secret-key"
EnvSecret      == "jwt-secret-from-env"

(* the values process.env.JWT_SECRET may have; "" is the unset variable *)
JwtSecrets == {"", EnvSecret}

NoJwt   == [form |-> "", id |-> 0, userId |-> 0, email |-> "",
            iat |-> 0, exp |-> 0, key |-> ""]
Garbage == [NoJwt EXCEPT !.form = "garbage"]
NoClaims == [id |-> 0, userId |-> 0, email |-> ""]

(* jwt.sign(payload, secret, { expiresIn: '7d' }) at the time at (ms): a
   token is its payload, the iat and exp claims in seconds, and the key its
   signature was made with *)
jwtSign(payload, secret, at) ==
  [form |-> "jws", id |-> payload.id, userId |-> payload.userId,
   email |-> payload.email,
   iat |-> at \div 1000, exp |-> (at \div 1000) + SevenDays,
   key |-> secret]

JsonWebTokenError == "JsonWebTokenError"
TokenExpiredError == "TokenExpiredError"

(* jwt.verify(token, secret) at the time at (ms): the name of the error it
   throws, "" if it returns the payload.  The structure and the signature
   are checked before the exp claim. *)
jwtVerify(token, secret, at) ==
  IF token.form # "jws" THEN JsonWebTokenError
  ELSE IF token.key # secret THEN JsonWebTokenError
  ELSE IF at \div 1000 >= token.exp THEN TokenExpiredError
  ELSE ""

(* the user object built from a decoded payload *)
claimsOf(decoded) ==
  [id |-> IF decoded.id # 0 THEN decoded.id ELSE decoded.userId,
   userId |-> IF decoded.userId # 0 THEN decoded.userId ELSE decoded.id,
   email |-> decoded.email]

VARIABLES
  users,      \* table users: sequence of rows, the row's id is its index
  tokens,     \* table password_resets: set of rows
  now,        \* wall clock, ms
  issued,     \* draws of the random source so far: <<[raw, userId], ...>>
  pc,         \* pc[p]: the await segment request p is suspended at
  call,       \* call[p]: method and arguments of the call p is running
  loc,        \* loc[p]: the call's local variables
  last,       \* method, arguments and outcome of the call that finished last
  calls,      \* number of calls started
  consumed,   \* history: raw secrets a resetPassword call has succeeded with
  purged,     \* history: raw secrets whose expired record resetPassword deleted
  superseded, \* history: raw secrets replaced by a later issue for the same user
  jwtSecret,  \* process.env.JWT_SECRET
  verdict,    \* the outcome of the bearer-token verification done last
  cronLog,    \* what the scheduled cleanup job logged last
  bulk        \* the sendBulkEmails call in progress: its arguments and locals

vars == <<users, tokens, now, issued, pc, call, loc, last, calls,
          consumed, purged, superseded, jwtSecret, verdict, cronLog, bulk>>

NoTime == -1
NoUser == [id |-> 0, email |-> "", name |-> "", isActive |-> FALSE]
NoRec  == [id |-> 0, userId |-> 0, token |-> "", expiresAt |-> 0]
NoCall == [op |-> "", email |-> "", password |-> "", name |-> "",
           token |-> "", userId |-> 0, newPassword |-> ""]
NoLoc  == [user |-> NoUser, rec |-> NoRec, raw |-> "", at |-> 0]
NoRes  == [op |-> "", email |-> "", password |-> "", name |-> "",
           token |-> "", userId |-> 0, newPassword |-> "",
           out |-> "", user |-> NoUser, raw |-> "",
           mail |-> "", http |-> NoResp, jwt |-> NoJwt, count |-> 0,
           list |-> <<>>]
NoCronLog == [ran |-> FALSE, ok |-> FALSE, count |-> 0]
NoBulk == [emailType |-> "", userList |-> <<>>, i |-> 0, results |-> <<>>,
           at |-> "", summary |-> [total |-> 0, sent |-> 0, failed |-> 0,
                                   emailType |-> ""]]
NoVerdict == [by |-> "", token |-> NoJwt, path |-> "", method |-> "",
              at |-> 0, out |-> "", user |-> NoClaims,
              status |-> 0, message |-> "", error |-> "", next |-> FALSE,
              handler |-> ""]

UserIds == 1..Len(users)

(* prisma.user.findUnique({ where: { email } }): the row's id, 0 if none *)
findUserByEmail(e) ==
  IF \E i \in UserIds : users[i].email = e
  THEN CHOOSE i \in UserIds : users[i].email = e
  ELSE 0

(* the select: { id, email, name, isActive } projection of a row *)
selectUser(i) ==
  [id |-> i, email |-> users[i].email, name |-> users[i].name,
   isActive |-> users[i].isActive]

(* the salt of a new digest: a value no stored digest carries *)
freshSalt ==
  CHOOSE s \in 1..(Len(users) + 1) :
    /\ \A i \in UserIds : users[i].password.salt # s
    /\ \A t \in 1..(s - 1) : \E i \in UserIds : users[i].password.salt = t

(* prisma.passwordReset.findFirst({ where: { token } }) *)
findResetRecord(digest) ==
  IF \E r \in tokens : r.token = digest
  THEN CHOOSE r \in tokens : r.token = digest
  ELSE NoRec

tokensOf(uid) == {r \in tokens : r.userId = uid}

(* ---- bookkeeping of a request ---------------------------------------- *)
(* a new request arrives at the idle worker p *)
Begin(p) ==
  /\ pc[p] = "idle"
  /\ calls < MaxCalls
  /\ calls' = calls + 1

(* the call of p resumes at the await segment named at *)
Resume(p, at) ==
  /\ pc[p] = at
  /\ UNCHANGED calls

(* the call (arguments c, locals l) suspends at its next store call *)
Suspend(p, at, c, l) ==
  /\ pc' = [pc EXCEPT ![p] = at]
  /\ call' = [call EXCEPT ![p] = c]
  /\ loc' = [loc EXCEPT ![p] = l]
  /\ UNCHANGED <<last, jwtSecret, verdict, cronLog, bulk>>

(* the request of p (arguments c) is answered: the service call returned or
   threw out ("" if the controller did not call the service) and returned
   the bearer token jwt, the notifier ended with mail ("" if it was not
   called), the controller responds http *)
ReturnAll(p, c, out, user, raw, mail, http, jwt, count, list) ==
  /\ pc' = [pc EXCEPT ![p] = "idle"]
  /\ call' = [call EXCEPT ![p] = NoCall]
  /\ loc' = [loc EXCEPT ![p] = NoLoc]
  /\ last' = [op |-> c.op, email |-> c.email, password |-> c.password,
              name |-> c.name, token |-> c.token, userId |-> c.userId,
              newPassword |-> c.newPassword,
              out |-> out, user |-> user, raw |-> raw,
              mail |-> mail, http |-> http, jwt |-> jwt, count |-> count,
              list |-> list]
  /\ UNCHANGED <<jwtSecret, verdict, cronLog, bulk>>

(* a call that returns no list of rows *)
ReturnCount(p, c, out, user, raw, mail, http, jwt, count) ==
  ReturnAll(p, c, out, user, raw, mail, http, jwt, count, <<>>)

(* a call that returns no number *)
Return(p, c, out, user, raw, mail, http, jwt) ==
  ReturnCount(p, c, out, user, raw, mail, http, jwt, 0)

(* a request that is answered without a bearer token *)
Respond(p, c, out, user, raw, mail, http) ==
  Return(p, c, out, user, raw, mail, http, NoJwt)

(* the service call of p (arguments c) returns or throws *)
Finish(p, c, out, user, raw) == Respond(p, c, out, user, raw, "", NoResp)

(* lines 804-815: generateToken signs with the configured key or, when
   JWT_SECRET is unset, with the literal default *)
generateToken(userId, email) ==
  jwtSign([id |-> userId, userId |-> userId, email |-> email],
          IF jwtSecret # "" THEN jwtSecret ELSE DefaultSecret, now)

(* login and register return { user, token } (lines 348-357, 395-401) *)
FinishWithToken(p, c, user) ==
  Return(p, c, OK, user, "", "", NoResp, generateToken(user.id, user.email))

Args(op, email, password, name, token, userId) ==
  [op |-> op, email |-> email, password |-> password, name |-> name,
   token |-> token, userId |-> userId, newPassword |-> ""]

(* the state of a fresh deployment but for the signing key *)
InitStore ==
  /\ users = <<>>
  /\ tokens = {}
  /\ now = 0
  /\ issued = <<>>
  /\ pc = [p \in Procs |-> "idle"]
  /\ call = [p \in Procs |-> NoCall]
  /\ loc = [p \in Procs |-> NoLoc]
  /\ last = NoRes
  /\ calls = 0
  /\ consumed = {}
  /\ purged = {}
  /\ superseded = {}
  /\ verdict = NoVerdict
  /\ cronLog = NoCronLog
  /\ bulk = NoBulk

(* the deployment with JWT_SECRET configured *)
Init ==
  /\ InitStore
  /\ jwtSecret = EnvSecret

(* ---- the clock ------------------------------------------------------- *)
Tick ==
  /\ \E d \in {1, TTL} :
       /\ now + d <= MaxHours * TTL + MaxJitter
       /\ (now + d) % TTL <= MaxJitter
       /\ now' = now + d
  /\ UNCHANGED <<users, tokens, issued, pc, call, loc, last, calls,
                 consumed, purged, superseded, jwtSecret, verdict,
                 cronLog, bulk>>

(* ---- register -------------------------------------------------------- *)
(* the existence check on the email as typed *)
registerCheckAsTyped(e, pw) ==
  IF findUserByEmail(e) # 0 THEN ErrConflict
  ELSE IF Len(pw) < MinPassword THEN ErrShortPassword
  ELSE OK

(* the password policy that asks for more than the minimum *)
registerCheckAboveMinimum(e, pw) ==
  IF findUserByEmail(toLowerCase(e)) # 0 THEN ErrConflict
  ELSE IF Len(pw) <= MinPassword THEN ErrShortPassword
  ELSE OK

(* the outcome of lines 363-375: existence check, password policy *)
registerCheck(e, pw) ==
  IF findUserByEmail(toLowerCase(e)) # 0 THEN ErrConflict
  ELSE IF Len(pw) < MinPassword THEN ErrShortPassword
  ELSE OK

(* lines 360-378: the two checks, bcrypt.hash; the password is one of pws *)
RegisterFindFrom(p, pws) ==
  \E e \in Emails, pw \in pws, n \in Names :
    LET c == Args("register", e, pw, n, "", 0)
        out == registerCheck(e, pw)
    IN
    /\ Begin(p)
    /\ IF out # OK
       THEN Finish(p, c, out, NoUser, "")
       ELSE Suspend(p, "register_create", c, NoLoc)
    /\ UNCHANGED <<users, tokens, now, issued, consumed, purged, superseded>>

RegisterFind(p) == RegisterFindFrom(p, Passwords)

(* the row with the email stored as typed *)
newUserRowAsTyped(e, pw, n) ==
  [email |-> e, name |-> n,
   password |-> bcryptHash(pw, freshSalt),
   isActive |-> TRUE, lastLoginAt |-> NoTime]

(* the row prisma.user.create inserts: isActive and lastLoginAt take the
   schema's defaults *)
newUserRow(e, pw, n) ==
  [email |-> toLowerCase(e), name |-> n,
   password |-> bcryptHash(pw, freshSalt),
   isActive |-> TRUE, lastLoginAt |-> NoTime]

(* lines 380-401: prisma.user.create under the @unique email constraint *)
RegisterCreate(p) ==
  LET c == call[p]
      row == newUserRow(c.email, c.password, c.name)
  IN
  /\ Resume(p, "register_create")
  /\ IF findUserByEmail(row.email) # 0
     THEN /\ Finish(p, c, ErrUniqueViolation, NoUser, "")
          /\ UNCHANGED users
     ELSE /\ users' = Append(users, row)
          /\ FinishWithToken(p, c,
                    [id |-> Len(users) + 1, email |-> row.email,
                     name |-> row.name, isActive |-> row.isActive])
  /\ UNCHANGED <<tokens, now, issued, consumed, purged, superseded>>

(* the login checks without the isActive test of line 332 *)
loginCheckIgnoresActive(i, pw) ==
  IF i = 0 THEN ErrInvalidCredentials
  ELSE IF ~bcryptCompare(pw, users[i].password) THEN ErrInvalidCredentials
  ELSE OK

(* ---- login ----------------------------------------------------------- *)
(* the outcome of lines 328-340 for the row id i (0: no row) *)
loginCheck(i, pw) ==
  IF i = 0 THEN ErrInvalidCredentials
  ELSE IF ~users[i].isActive THEN ErrDeactivated
  ELSE IF ~bcryptCompare(pw, users[i].password) THEN ErrInvalidCredentials
  ELSE OK

(* lines 315-345: lookup, the three checks, new Date() for lastLoginAt *)
LoginFind(p) ==
  \E e \in Emails, pw \in Passwords :
    LET c == Args("login", e, pw, "", "", 0)
        i == findUserByEmail(toLowerCase(e))
        out == loginCheck(i, pw)
    IN
    /\ Begin(p)
    /\ IF out # OK
       THEN Finish(p, c, out, NoUser, "")
       ELSE Suspend(p, "login_update", c,
                    [NoLoc EXCEPT !.user = selectUser(i), !.at = now])
    /\ UNCHANGED <<users, tokens, now, issued, consumed, purged, superseded>>

(* the login that returns without the update of lastLoginAt *)
LoginUpdateKeepsStamp(p) ==
  /\ Resume(p, "login_update")
  /\ FinishWithToken(p, call[p], loc[p].user)
  /\ UNCHANGED <<users, tokens, now, issued, consumed, purged, superseded>>

(* lines 342-357: prisma.user.update of lastLoginAt, then the result *)
LoginUpdate(p) ==
  LET u == loc[p].user IN
  /\ Resume(p, "login_update")
  /\ users' = [users EXCEPT ![u.id].lastLoginAt = loc[p].at]
  /\ FinishWithToken(p, call[p], u)
  /\ UNCHANGED <<tokens, now, issued, consumed, purged, superseded>>

(* ---- forgotPassword, generatePasswordResetToken ----------------------- *)
(* the service is called by the controller's forgotPassword handler
   (auth.controller.ts lines 57-103) *)

(* lines 457-460: the catch of the method's try block throws a new Error
   with one fixed message in place of whatever error reached it *)
genCatch(error) == ErrGenerateFailed

(* the lookup that throws for an email without a user *)
genCheckUnknownThrows(i) ==
  IF i = 0 THEN genCatch(ErrUserNotFound)
  ELSE IF ~users[i].isActive THEN genCatch(ErrDeactivated)
  ELSE OK

(* the outcome of lines 408-428 for the row id i (0: no row); the throw of
   line 426 happens inside the try block *)
genCheck(i) ==
  IF i = 0 THEN NullResult
  ELSE IF ~users[i].isActive THEN genCatch(ErrDeactivated)
  ELSE OK

(* controller lines 71-77 and 99-102: the response when the service did not
   return reset data *)
forgotPasswordResponse(out) ==
  IF out = NullResult THEN json(200, TRUE, MsgResetRequested)
  ELSE nextError(out)

(* controller lines 57-69, service lines 407-436: the email check, lookup,
   activity check, fresh secret, expiry time *)
GenFind(p) ==
  \E e \in Emails \cup {""} :
    LET c == Args("generatePasswordResetToken", e, "", "", "", 0)
        i == findUserByEmail(toLowerCase(e))
        out == genCheck(i)
        raw == randomBytes(Len(issued) + 1)
    IN
    /\ Begin(p)
    /\ IF e = ""
       THEN /\ Respond(p, c, "", NoUser, "", "",
                       json(400, FALSE, MsgEmailRequired))
            /\ UNCHANGED issued
       ELSE IF out # OK
       THEN /\ Respond(p, c, out, NoUser, "", "", forgotPasswordResponse(out))
            /\ UNCHANGED issued
       ELSE /\ Len(issued) < MaxIssued
            /\ issued' = Append(issued, [raw |-> raw, userId |-> i])
            /\ Suspend(p, "gen_delete", c,
                       [NoLoc EXCEPT !.user = selectUser(i), !.raw = raw,
                                     !.at = now + TTL])
    /\ UNCHANGED <<users, tokens, now, consumed, purged, superseded>>

(* the issue without the deleteMany of the user's earlier rows *)
GenDeleteNothing(p) ==
  /\ Resume(p, "gen_delete")
  /\ Suspend(p, "gen_create", call[p], loc[p])
  /\ UNCHANGED <<users, tokens, now, issued, consumed, purged, superseded>>

(* lines 438-441: prisma.passwordReset.deleteMany({ where: { userId } }) *)
GenDelete(p) ==
  /\ Resume(p, "gen_delete")
  /\ tokens' = tokens \ tokensOf(loc[p].user.id)
  /\ Suspend(p, "gen_create", call[p], loc[p])
  /\ UNCHANGED <<users, now, issued, consumed, purged, superseded>>

(* the position of a raw secret among the draws of the random source *)
issueIndex(raw) == CHOOSE k \in 1..Len(issued) : issued[k].raw = raw

(* lines 443-456: prisma.passwordReset.create; the service returns the
   reset data and the controller calls the notifier *)
GenCreate(p) ==
  LET l == loc[p]
      k == issueIndex(l.raw)
  IN
  /\ Resume(p, "gen_create")
  /\ tokens' = tokens \cup {[id |-> k, userId |-> l.user.id,
                             token |-> sha256(l.raw), expiresAt |-> l.at]}
  /\ superseded' = superseded \cup
       {issued[j].raw : j \in {j \in 1..(k - 1) : issued[j].userId = l.user.id}}
  /\ Suspend(p, "fp_mail", call[p], l)
  /\ UNCHANGED <<users, now, issued, consumed, purged>>

(* controller lines 79-98: emailManager.sendPasswordResetEmail, then the
   response *)
FpMail(p) ==
  \E m \in MailOutcomes :
    /\ Resume(p, "fp_mail")
    /\ Respond(p, call[p], OK, loc[p].user, loc[p].raw, m,
               IF m = "thrown"
               THEN json(500, FALSE, MsgMailFailed)
               ELSE json(200, TRUE, MsgResetRequested))
    /\ UNCHANGED <<users, tokens, now, issued, consumed, purged, superseded>>

(* ---- resetPassword --------------------------------------------------- *)
(* the service is called by the controller's resetPassword handler
   (auth.controller.ts lines 106-144) *)

(* what a caller may present as a reset token *)
TokenInputs == {randomBytes(k) : k \in 1..Len(issued)} \cup {"bogus"}

(* controller lines 121-143: the response to the service's outcome *)
resetPasswordResponse(out) ==
  IF out = OK THEN json(200, TRUE, MsgResetDone)
  ELSE IF includes(out, "expired") THEN json(400, FALSE, MsgGuidanceExpired)
  ELSE IF includes(out, "Invalid") THEN json(400, FALSE, MsgGuidanceInvalid)
  ELSE nextError(out)

(* the service call of p throws out and the controller responds *)
Throw(p, out) ==
  Respond(p, call[p], out, NoUser, "", "", resetPasswordResponse(out))

(* the checks with the owner's isActive tested before the expiry *)
resetCheckActiveFirst(pw, rec) ==
  IF Len(pw) < MinPassword THEN ErrShortPassword
  ELSE IF rec = NoRec THEN ErrInvalidToken
  ELSE IF ~users[rec.userId].isActive THEN ErrDeactivated
  ELSE IF now > rec.expiresAt THEN ErrTokenExpired
  ELSE OK

(* the outcome of lines 469-507 for the new password pw and the record rec
   found for the token's digest (NoRec: none): the first check that fails;
   the expiry failure is thrown only after the delete of lines 498-500 *)
resetCheck(pw, rec) ==
  IF Len(pw) < MinPassword THEN ErrShortPassword
  ELSE IF rec = NoRec THEN ErrInvalidToken
  ELSE IF now > rec.expiresAt THEN ErrTokenExpired
  ELSE IF ~users[rec.userId].isActive THEN ErrDeactivated
  ELSE OK

(* controller lines 106-119, service lines 466-507: the presence check,
   password policy, digest, lookup (the owner's row is read with the
   record), expiry check against new Date(), activity check *)
RpFind(p) ==
  \E t \in TokenInputs \cup {""}, pw \in Passwords :
    LET c == Args("resetPassword", "", pw, "", t, 0)
        rec == findResetRecord(sha256(t))
        l == [NoLoc EXCEPT !.rec = rec, !.user = selectUser(rec.userId)]
        out == resetCheck(pw, rec)
        fails(error) ==
          Respond(p, c, error, NoUser, "", "", resetPasswordResponse(error))
    IN
    /\ Begin(p)
    /\ IF t = "" \/ pw = ""
       THEN Respond(p, c, "", NoUser, "", "",
                    json(400, FALSE, MsgTokenRequired))
       ELSE IF out = ErrTokenExpired THEN Suspend(p, "rp_purge", c, l)
       ELSE IF out # OK THEN fails(out)
       ELSE Suspend(p, "rp_tx", c, l)
    /\ UNCHANGED <<users, tokens, now, issued, consumed, purged, superseded>>

(* the expiry failure without the delete of the expired row *)
RpPurgeKeepsRecord(p) ==
  /\ Resume(p, "rp_purge")
  /\ purged' = purged \cup {call[p].token}
  /\ Throw(p, ErrTokenExpired)
  /\ UNCHANGED <<users, tokens, now, issued, consumed, superseded>>

(* lines 497-501: prisma.passwordReset.delete({ where: { id } }) of the
   expired record; delete throws P2025 when no row has the id *)
RpPurge(p) ==
  LET rec == loc[p].rec IN
  /\ Resume(p, "rp_purge")
  /\ IF \E r \in tokens : r.id = rec.id
     THEN /\ tokens' = {r \in tokens : r.id # rec.id}
          /\ purged' = purged \cup {call[p].token}
          /\ Throw(p, ErrTokenExpired)
     ELSE /\ Throw(p, ErrRecordNotFound)
          /\ UNCHANGED <<tokens, purged>>
  /\ UNCHANGED <<users, now, issued, consumed, superseded>>

(* how the store may fail a write of the transaction *)
Faults == {"none", "update", "delete"}

(* the two writes issued one after the other, outside a transaction: the
   update stays applied when the delete is rejected *)
transactionWriteByWrite(uid, digest, recId, fault) ==
  LET updOk == uid \in UserIds /\ fault # "update"
      delOk == (\E r \in tokens : r.id = recId) /\ fault # "delete"
  IN
  [out |-> IF updOk /\ delOk THEN OK
           ELSE IF fault # "none" THEN ErrStoreUnavailable
           ELSE ErrRecordNotFound,
   users |-> IF updOk THEN [users EXCEPT ![uid].password = digest] ELSE users,
   tokens |-> IF updOk /\ delOk THEN {r \in tokens : r.id # recId}
              ELSE tokens]

(* the transaction without the delete of the consumed row *)
transactionKeepsToken(uid, digest, recId, fault) ==
  LET updOk == uid \in UserIds /\ fault # "update"
      delOk == (\E r \in tokens : r.id = recId) /\ fault # "delete"
  IN
  IF updOk /\ delOk
  THEN [out |-> OK,
        users |-> [users EXCEPT ![uid].password = digest],
        tokens |-> tokens]
  ELSE [out |-> IF fault # "none" THEN ErrStoreUnavailable
                ELSE ErrRecordNotFound,
        users |-> users, tokens |-> tokens]

(* the transaction without the update of the password *)
transactionKeepsPassword(uid, digest, recId, fault) ==
  LET updOk == uid \in UserIds /\ fault # "update"
      delOk == (\E r \in tokens : r.id = recId) /\ fault # "delete"
  IN
  IF updOk /\ delOk
  THEN [out |-> OK,
        users |-> users,
        tokens |-> {r \in tokens : r.id # recId}]
  ELSE [out |-> IF fault # "none" THEN ErrStoreUnavailable
                ELSE ErrRecordNotFound,
        users |-> users, tokens |-> tokens]

(* lines 513-521: prisma.$transaction([user.update, passwordReset.delete]):
   both writes are applied, or, when either is rejected, neither *)
transaction(uid, digest, recId, fault) ==
  LET updOk == uid \in UserIds /\ fault # "update"
      delOk == (\E r \in tokens : r.id = recId) /\ fault # "delete"
  IN
  IF updOk /\ delOk
  THEN [out |-> OK,
        users |-> [users EXCEPT ![uid].password = digest],
        tokens |-> {r \in tokens : r.id # recId}]
  ELSE [out |-> IF fault # "none" THEN ErrStoreUnavailable
                ELSE ErrRecordNotFound,
        users |-> users, tokens |-> tokens]

(* lines 509-521: bcrypt.hash and the transaction; when it commits the
   service goes on to the notifier *)
RpTx(p) ==
  \E fault \in Faults :
    LET rec == loc[p].rec
        tx == transaction(rec.userId,
                          bcryptHash(call[p].password, freshSalt),
                          rec.id, fault)
    IN
    /\ Resume(p, "rp_tx")
    /\ users' = tx.users
    /\ tokens' = tx.tokens
    /\ IF tx.out = OK
       THEN /\ consumed' = consumed \cup {call[p].token}
            /\ Suspend(p, "rp_notify", call[p], loc[p])
       ELSE /\ Throw(p, tx.out)
            /\ UNCHANGED consumed
    /\ UNCHANGED <<now, issued, purged, superseded>>

(* the notification whose rejection is not caught: the call throws *)
RpNotifyUncaught(p) ==
  \E m \in MailOutcomes :
    /\ Resume(p, "rp_notify")
    /\ IF m = "thrown"
       THEN Respond(p, call[p], ErrMailNotConfigured, NoUser, "", m,
                    resetPasswordResponse(ErrMailNotConfigured))
       ELSE Respond(p, call[p], OK, NoUser, "", m, resetPasswordResponse(OK))
    /\ UNCHANGED <<users, tokens, now, issued, consumed, purged, superseded>>

(* lines 523-543: emailManager.sendPasswordResetConfirmation inside
   try/catch, then the result; the controller responds (lines 121-124) *)
RpNotify(p) ==
  \E m \in MailOutcomes :
    /\ Resume(p, "rp_notify")
    /\ Respond(p, call[p], OK, NoUser, "", m, resetPasswordResponse(OK))
    /\ UNCHANGED <<users, tokens, now, issued, consumed, purged, superseded>>

(* ---- changePassword -------------------------------------------------- *)
(* the checks with the comparison of the current password left out *)
changePasswordCheckAnyCurrent(uid, currentPassword, newPassword) ==
  IF uid \notin UserIds THEN ErrUserNotFound
  ELSE IF ~users[uid].isActive THEN ErrDeactivated
  ELSE IF Len(newPassword) < MinPassword THEN ErrShortNewPassword
  ELSE OK

(* the checks with the length of the new password tested before the
   current password *)
changePasswordCheckLengthFirst(uid, currentPassword, newPassword) ==
  IF uid \notin UserIds THEN ErrUserNotFound
  ELSE IF ~users[uid].isActive THEN ErrDeactivated
  ELSE IF Len(newPassword) < MinPassword THEN ErrShortNewPassword
  ELSE IF ~bcryptCompare(currentPassword, users[uid].password)
  THEN ErrCurrentPassword
  ELSE OK

(* the outcome of lines 557-574 for the row id uid *)
changePasswordCheck(uid, currentPassword, newPassword) ==
  IF uid \notin UserIds THEN ErrUserNotFound
  ELSE IF ~users[uid].isActive THEN ErrDeactivated
  ELSE IF ~bcryptCompare(currentPassword, users[uid].password)
  THEN ErrCurrentPassword
  ELSE IF Len(newPassword) < MinPassword THEN ErrShortNewPassword
  ELSE OK

(* lines 545-577: lookup by id, the four checks, bcrypt.hash *)
ChangePasswordFind(p) ==
  \E uid \in 1..(Len(users) + 1), cur \in Passwords, new \in Passwords :
    LET c == [Args("changePassword", "", cur, "", "", uid)
                EXCEPT !.newPassword = new]
        out == changePasswordCheck(uid, cur, new)
    IN
    /\ Begin(p)
    /\ IF out # OK
       THEN Finish(p, c, out, NoUser, "")
       ELSE Suspend(p, "cp_update", c, NoLoc)
    /\ UNCHANGED <<users, tokens, now, issued, consumed, purged, superseded>>

(* lines 579-586: prisma.user.update of the password, then the result *)
ChangePasswordUpdate(p) ==
  LET c == call[p] IN
  /\ Resume(p, "cp_update")
  /\ users' = [users EXCEPT
                 ![c.userId].password = bcryptHash(c.newPassword, freshSalt)]
  /\ Finish(p, c, OK, NoUser, "")
  /\ UNCHANGED <<tokens, now, issued, consumed, purged, superseded>>

(* ---- cleanupExpiredTokens -------------------------------------------- *)
(* the cleanup with lte in place of lt: a row that expires at this very
   moment is removed too *)
CleanupExpiredTokensInclusive(p) ==
  LET c == Args("cleanupExpiredTokens", "", "", "", "", 0)
      expired == {r \in tokens : r.expiresAt <= now}
  IN
  /\ Begin(p)
  /\ tokens' = tokens \ expired
  /\ ReturnCount(p, c, OK, NoUser, "", "", NoResp, NoJwt,
                 Cardinality(expired))
  /\ UNCHANGED <<users, now, issued, consumed, purged, superseded>>

(* lines 757-773: deleteMany({ where: { expiresAt: { lt: new Date() } } })
   and return result.count *)
CleanupExpiredTokens(p) ==
  LET c == Args("cleanupExpiredTokens", "", "", "", "", 0)
      expired == {r \in tokens : r.expiresAt < now}
  IN
  /\ Begin(p)
  /\ tokens' = tokens \ expired
  /\ ReturnCount(p, c, OK, NoUser, "", "", NoResp, NoJwt,
                 Cardinality(expired))
  /\ UNCHANGED <<users, now, issued, consumed, purged, superseded>>

(* ---- the scheduled cleanup job ---------------------------------------- *)
(* the job whose scheduler gives up after a run that failed *)
CronCleanupRunUntilFailure(fault) ==
  LET expired == {r \in tokens : r.expiresAt < now} IN
  /\ cronLog.ran => cronLog.ok
  /\ IF fault
     THEN /\ cronLog' = [ran |-> TRUE, ok |-> FALSE, count |-> 0]
          /\ UNCHANGED tokens
     ELSE /\ tokens' = tokens \ expired
          /\ cronLog' = [ran |-> TRUE, ok |-> TRUE,
                         count |-> Cardinality(expired)]
  /\ UNCHANGED <<users, now, issued, pc, call, loc, last, calls,
                 consumed, purged, superseded, jwtSecret, verdict, bulk>>

(* email-manager lines 251-262: cron.schedule('0 */6 * * *', ...) runs
   cleanupExpiredTokens outside any request; when the store rejects the
   deleteMany (fault) the service rethrows and the job's catch logs the
   failure, and the schedule goes on *)
CronCleanupRun(fault) ==
  LET expired == {r \in tokens : r.expiresAt < now} IN
  /\ IF fault
     THEN /\ cronLog' = [ran |-> TRUE, ok |-> FALSE, count |-> 0]
          /\ UNCHANGED tokens
     ELSE /\ tokens' = tokens \ expired
          /\ cronLog' = [ran |-> TRUE, ok |-> TRUE,
                         count |-> Cardinality(expired)]
  /\ UNCHANGED <<users, now, issued, pc, call, loc, last, calls,
                 consumed, purged, superseded, jwtSecret, verdict, bulk>>

CronCleanup == \E fault \in BOOLEAN : CronCleanupRun(fault)

(* ---- deactivateAccount, reactivateAccount ---------------------------- *)
(* lines 659-691: prisma.user.update of isActive; update throws P2025 when
   no row has the id *)
setActive(p, op, uid, active) ==
  LET c == Args(op, "", "", "", "", uid) IN
  /\ Begin(p)
  /\ IF uid \in UserIds
     THEN /\ users' = [users EXCEPT ![uid].isActive = active]
          /\ Finish(p, c, OK, [selectUser(uid) EXCEPT !.isActive = active], "")
     ELSE /\ Finish(p, c, ErrRecordNotFound, NoUser, "")
          /\ UNCHANGED users
  /\ UNCHANGED <<tokens, now, issued, consumed, purged, superseded>>

DeactivateAccount(p) ==
  \E uid \in 1..(Len(users) + 1) : setActive(p, "deactivateAccount", uid, FALSE)

ReactivateAccount(p) ==
  \E uid \in 1..(Len(users) + 1) : setActive(p, "reactivateAccount", uid, TRUE)

(* ---- verification of bearer tokens ----------------------------------- *)
(* the clock of the bearer-token lifetime: seconds and whole lifetimes *)
JwtTick ==
  /\ \E d \in {1000, SevenDays * 1000} :
       /\ now + d <= (MaxWeeks * SevenDays + MaxJitter) * 1000
       /\ (now + d) % (SevenDays * 1000) <= MaxJitter * 1000
       /\ now' = now + d
  /\ UNCHANGED <<users, tokens, issued, pc, call, loc, last, calls,
                 consumed, purged, superseded, jwtSecret, verdict,
                 cronLog, bulk>>

(* what a client may present as a bearer token: the token returned last,
   that token with a signature made with another key, or no token at all *)
BearerInputs ==
  {Garbage} \cup
  (IF last.jwt = NoJwt THEN {}
   ELSE {last.jwt, [last.jwt EXCEPT !.key = "another-key"]})

ErrInvalidBearer == "Invalid token"

(* service lines 817-831: verifyToken; every error of jwt.verify is
   replaced by Error('Invalid token') *)
verifyToken(token) ==
  LET secret == IF jwtSecret # "" THEN jwtSecret ELSE DefaultSecret
      thrown == jwtVerify(token, secret, now)
  IN
  [NoVerdict EXCEPT
     !.by = "verifyToken", !.token = token, !.at = now,
     !.out = IF thrown = "" THEN OK ELSE ErrInvalidBearer,
     !.user = IF thrown = "" THEN claimsOf(token) ELSE NoClaims]

VerifyToken ==
  /\ \E t \in BearerInputs : verdict' = verifyToken(t)
  /\ UNCHANGED <<users, tokens, now, issued, pc, call, loc, last, calls,
                 consumed, purged, superseded, jwtSecret, cronLog, bulk>>

(* middleware lines 18-26 *)
PUBLIC_ROUTES ==
  {"/api/auth/login", "/api/auth/register", "/api/auth/forgot-password",
   "/api/auth/reset-password", "/api/health", "/api/ping"}

startsWith(s, prefix) ==
  Len(prefix) <= Len(s) /\ SubSeq(s, 1, Len(prefix)) = prefix

(* path.replace(/\/+$/, '') || '/' *)
RECURSIVE stripSlashes(_)
stripSlashes(s) ==
  IF Len(s) > 0 /\ SubSeq(s, Len(s), Len(s)) = "/"
  THEN stripSlashes(SubSeq(s, 1, Len(s) - 1))
  ELSE s

cleanPath(path) == IF stripSlashes(path) = "" THEN "/" ELSE stripSlashes(path)

(* middleware lines 109-128 *)
isPublicRoute(path) ==
  \E route \in PUBLIC_ROUTES :
    LET cleanRoute == cleanPath(route) IN
    \/ cleanPath(path) = cleanRoute
    \/ cleanPath(path) = cleanRoute \o "/"
    \/ cleanRoute = cleanPath(path) \o "/"
    \/ startsWith(cleanPath(path), cleanRoute \o "/")

(* the requests the middleware sees *)
Paths   == {"/api/auth/login", "/api/auth/profile"}
Methods == {"GET", "OPTIONS"}

(* res.status(status).json({ success: false, message, error }) *)
reject(req, status, message, error) ==
  [NoVerdict EXCEPT
     !.by = "authenticateToken", !.token = req.token, !.path = req.path,
     !.method = req.method, !.at = now,
     !.status = status, !.message = message, !.error = error]

(* next(), with req.user as the middleware left it *)
pass(req, user) ==
  [NoVerdict EXCEPT
     !.by = "authenticateToken", !.token = req.token, !.path = req.path,
     !.method = req.method, !.at = now, !.user = user, !.next = TRUE]

(* the middleware with one answer for every error of jwt.verify *)
authenticateTokenOneAnswer(req) ==
  IF isPublicRoute(req.path) THEN pass(req, NoClaims)
  ELSE IF req.method = "OPTIONS" THEN pass(req, NoClaims)
  ELSE IF req.token = NoJwt
  THEN reject(req, 401, "Access token required", "MISSING_TOKEN")
  ELSE IF jwtSecret = ""
  THEN reject(req, 500, "Server configuration error", "")
  ELSE IF jwtVerify(req.token, jwtSecret, now) = ""
  THEN pass(req, claimsOf(req.token))
  ELSE reject(req, 401, "Invalid or expired token", "INVALID_TOKEN")

(* middleware lines 32-104: authenticateToken(req, res, next) *)
authenticateToken(req) ==
  LET thrown == jwtVerify(req.token, jwtSecret, now) IN
  IF isPublicRoute(req.path) THEN pass(req, NoClaims)
  ELSE IF req.method = "OPTIONS" THEN pass(req, NoClaims)
  ELSE IF req.token = NoJwt
  THEN reject(req, 401, "Access token required", "MISSING_TOKEN")
  ELSE IF jwtSecret = ""
  THEN reject(req, 500, "Server configuration error", "")
  ELSE IF thrown = "" THEN pass(req, claimsOf(req.token))
  ELSE IF thrown = TokenExpiredError
  THEN reject(req, 401, "Token has expired", "TOKEN_EXPIRED")
  ELSE IF thrown = JsonWebTokenError
  THEN reject(req, 401, "Invalid token format", "MALFORMED_TOKEN")
  ELSE reject(req, 401, "Invalid or expired token", "INVALID_TOKEN")

AuthenticateToken ==
  /\ \E path \in Paths, method \in Methods, t \in BearerInputs \cup {NoJwt} :
       verdict' = authenticateToken([path |-> path, method |-> method,
                                     token |-> t])
  /\ UNCHANGED <<users, tokens, now, issued, pc, call, loc, last, calls,
                 consumed, purged, superseded, jwtSecret, cronLog, bulk>>

(* ---- specifications -------------------------------------------------- *)
(* ---- getProfile, getUserById, getAllUsers, updateProfile -------------- *)
ErrEmailTaken == "Email is already taken"

(* what updateProfile may be handed: "" stands for an absent field *)
ProfileNames  == {"", "Alicia"}
ProfileEmails == Emails \cup {""}

(* the row read without a select: the password comes along *)
selectProfileWithPassword(i) ==
  [id |-> i, email |-> users[i].email, name |-> users[i].name,
   password |-> users[i].password,
   isActive |-> users[i].isActive, lastLoginAt |-> users[i].lastLoginAt]

(* the select of lines 592-599, 646-653, 699-706, 741-748: the row without
   its password (createdAt and updatedAt are not part of the model's row) *)
selectProfile(i) ==
  [id |-> i, email |-> users[i].email, name |-> users[i].name,
   isActive |-> users[i].isActive, lastLoginAt |-> users[i].lastLoginAt]

(* lines 589-607: findUnique by id, 'User not found' when there is none *)
GetProfile(p) ==
  \E uid \in 1..(Len(users) + 1) :
    LET c == Args("getProfile", "", "", "", "", uid) IN
    /\ Begin(p)
    /\ IF uid \in UserIds
       THEN Finish(p, c, OK, selectProfile(uid), "")
       ELSE Finish(p, c, ErrUserNotFound, NoUser, "")
    /\ UNCHANGED <<users, tokens, now, issued, consumed, purged, superseded>>

(* lines 738-752: findUnique by id, null when there is none *)
GetUserById(p) ==
  \E uid \in 1..(Len(users) + 1) :
    LET c == Args("getUserById", "", "", "", "", uid) IN
    /\ Begin(p)
    /\ IF uid \in UserIds
       THEN Finish(p, c, OK, selectProfile(uid), "")
       ELSE Finish(p, c, NullResult, NoUser, "")
    /\ UNCHANGED <<users, tokens, now, issued, consumed, purged, superseded>>

(* lines 694-726: the first page of findMany, newest row first, and the
   count of all rows *)
GetAllUsers(p) ==
  LET c == Args("getAllUsers", "", "", "", "", 0)
      n == Len(users)
  IN
  /\ Begin(p)
  /\ ReturnAll(p, c, OK, NoUser, "", "", NoResp, NoJwt, n,
               [k \in 1..n |-> selectProfile(n + 1 - k)])
  /\ UNCHANGED <<users, tokens, now, issued, consumed, purged, superseded>>

(* lines 609-627: findUnique by id and the two checks; the email check
   follows only when an email was handed in *)
UpdateProfileFind(p) ==
  \E uid \in 1..(Len(users) + 1), e \in ProfileEmails, n \in ProfileNames :
    LET c == Args("updateProfile", e, "", n, "", uid)
        out == IF uid \notin UserIds THEN ErrUserNotFound
               ELSE IF ~users[uid].isActive THEN ErrDeactivated
               ELSE OK
    IN
    /\ Begin(p)
    /\ IF out # OK THEN Finish(p, c, out, NoUser, "")
       ELSE IF e # "" THEN Suspend(p, "up_check", c, NoLoc)
       ELSE Suspend(p, "up_update", c, NoLoc)
    /\ UNCHANGED <<users, tokens, now, issued, consumed, purged, superseded>>

(* lines 627-638: findUnique({ email: email.toLowerCase(), NOT: { id } }) *)
UpdateProfileCheck(p) ==
  LET c == call[p]
      emailTaken == \E i \in UserIds :
                      i # c.userId /\ users[i].email = toLowerCase(c.email)
  IN
  /\ Resume(p, "up_check")
  /\ IF emailTaken THEN Finish(p, c, ErrEmailTaken, NoUser, "")
     ELSE Suspend(p, "up_update", c, NoLoc)
  /\ UNCHANGED <<users, tokens, now, issued, consumed, purged, superseded>>

(* the data of the update with the email as typed *)
profileDataAsTyped(row, name, email) ==
  [row EXCEPT !.name = IF name # "" THEN name ELSE @,
              !.email = IF email # "" THEN email ELSE @]

(* lines 642-645: { ...(name && { name }),
   ...(email && { email: email.toLowerCase() }) } applied to the row *)
profileData(row, name, email) ==
  [row EXCEPT !.name = IF name # "" THEN name ELSE @,
              !.email = IF email # "" THEN toLowerCase(email) ELSE @]

(* lines 640-656: prisma.user.update under the @unique email constraint;
   the rejection of the store is not caught *)
UpdateProfileUpdate(p) ==
  LET c == call[p]
      row == profileData(users[c.userId], c.name, c.email)
      held == \E i \in UserIds : i # c.userId /\ users[i].email = row.email
  IN
  /\ Resume(p, "up_update")
  /\ IF held
     THEN /\ Finish(p, c, ErrUniqueViolation, NoUser, "")
          /\ UNCHANGED users
     ELSE /\ users' = [users EXCEPT ![c.userId] = row]
          /\ Finish(p, c, OK,
                    [id |-> c.userId, email |-> row.email, name |-> row.name,
                     isActive |-> row.isActive,
                     lastLoginAt |-> row.lastLoginAt], "")
  /\ UNCHANGED <<tokens, now, issued, consumed, purged, superseded>>

(* ---- the router of the auth routes ------------------------------------ *)
(* the paths and methods of the requests the router is sent; the router
   sees a path relative to its mount point *)
RoutePaths ==
  {"/profile", "/profile/", "/Profile", "/login", "/api/auth/login"}
RouteMethods == {"GET", "HEAD", "POST", "OPTIONS"}

(* routes part_000 lines 66-93: the routes registered before the auth
   middleware *)
PublicHandlers ==
  {[method |-> "GET",  path |-> "/health",          name |-> "health"],
   [method |-> "POST", path |-> "/login",           name |-> "login"],
   [method |-> "POST", path |-> "/register",        name |-> "register"],
   [method |-> "POST", path |-> "/forgot-password", name |-> "forgotPassword"],
   [method |-> "POST", path |-> "/reset-password",  name |-> "resetPassword"]}

(* routes part_000 lines 125-129: the routes registered after it *)
ProtectedHandlers ==
  {[method |-> "GET",  path |-> "/profile",         name |-> "getProfile"],
   [method |-> "PUT",  path |-> "/profile",         name |-> "updateProfile"],
   [method |-> "POST", path |-> "/change-password", name |-> "changePassword"],
   [method |-> "POST", path |-> "/logout",          name |-> "logout"]}

(* routes part_000 lines 12-19: one trailing slash is cut off the path *)
cleanUrl(path) ==
  IF Len(path) > 1 /\ SubSeq(path, Len(path), Len(path)) = "/"
  THEN SubSeq(path, 1, Len(path) - 1)
  ELSE path

(* the router compares paths without regard to letter case *)
lowerPath(path) ==
  CASE path = "/Profile" -> "/profile"
    [] OTHER -> path

(* a router on which every route answers every method *)
routeMatchesAnyMethod(route, method, path) ==
  lowerPath(cleanUrl(path)) = route.path

(* router.get / put / post: the route answers its own method (get also
   HEAD) on its own path, a trailing slash and the letter case apart *)
routeMatches(route, method, path) ==
  /\ \/ route.method = method
     \/ route.method = "GET" /\ method = "HEAD"
  /\ lowerPath(cleanUrl(path)) = route.path

(* the handler a request ends at, "" if none: a public route answers
   before the middleware is reached; otherwise authenticateToken runs
   (routes part_000 lines 119-122) and, when it calls next(), the protected
   route that matches *)
route(req) ==
  LET cleaned == [req EXCEPT !.path = cleanUrl(req.path)]
      public == {r \in PublicHandlers :
                   routeMatches(r, cleaned.method, cleaned.path)}
      protected == {r \in ProtectedHandlers :
                      routeMatches(r, cleaned.method, cleaned.path)}
      v == authenticateToken(cleaned)
  IN
  IF public # {}
  THEN [NoVerdict EXCEPT
          !.by = "router", !.token = req.token, !.path = cleaned.path,
          !.method = req.method, !.at = now,
          !.handler = (CHOOSE r \in public : TRUE).name]
  ELSE [v EXCEPT !.by = "router",
                 !.handler = IF v.next /\ protected # {}
                             THEN (CHOOSE r \in protected : TRUE).name
                             ELSE ""]

RouteRequest ==
  /\ \E path \in RoutePaths, method \in RouteMethods,
        t \in BearerInputs \cup {NoJwt} :
       verdict' = route([path |-> path, method |-> method, token |-> t])
  /\ UNCHANGED <<users, tokens, now, issued, pc, call, loc, last, calls,
                 consumed, purged, superseded, jwtSecret, cronLog, bulk>>

(* ---- the database-backed authMiddleware ------------------------------ *)
(* error instanceof class, for the errors of jsonwebtoken: its
   TokenExpiredError is a subclass of its JsonWebTokenError *)
instanceOf(error, class) ==
  \/ error = class
  \/ error = TokenExpiredError /\ class = JsonWebTokenError

(* the answer of the middleware of part_001 lines 27-110 to a request with
   (header) or without an Authorization header, token its second word *)
authMiddleware(req) ==
  LET thrown == jwtVerify(req.token,
                          IF jwtSecret # "" THEN jwtSecret ELSE DefaultSecret,
                          now)
      uid == req.token.userId
      answer(status, message) ==
        [NoVerdict EXCEPT
           !.by = "authMiddleware", !.token = req.token, !.at = now,
           !.status = status, !.message = message]
  IN
  IF ~req.header THEN answer(401, "Authorization header is required")
  ELSE IF req.token = NoJwt THEN answer(401, "Token is required")
  ELSE IF thrown # ""
  THEN IF instanceOf(thrown, JsonWebTokenError)
       THEN answer(401, "Invalid token")
       ELSE IF instanceOf(thrown, TokenExpiredError)
       THEN answer(401, "Token expired")
       ELSE answer(500, "Internal server error")
  ELSE IF ~(uid \in UserIds /\ users[uid].isActive)
  THEN answer(401, "User not found or inactive")
  ELSE [NoVerdict EXCEPT
          !.by = "authMiddleware", !.token = req.token, !.at = now,
          !.next = TRUE,
          !.user = [id |-> uid, email |-> users[uid].email,
                    name |-> users[uid].name]]

AuthMiddleware ==
  /\ \E header \in BOOLEAN, t \in BearerInputs \cup {NoJwt} :
       /\ ~header => t = NoJwt
       /\ verdict' = authMiddleware([header |-> header, token |-> t])
  /\ UNCHANGED <<users, tokens, now, issued, pc, call, loc, last, calls,
                 consumed, purged, superseded, jwtSecret, cronLog, bulk>>

Step(p) ==
  \/ RegisterFind(p)
  \/ RegisterCreate(p)
  \/ LoginFind(p)
  \/ LoginUpdate(p)
  \/ GenFind(p)
  \/ GenDelete(p)
  \/ GenCreate(p)
  \/ FpMail(p)
  \/ RpFind(p)
  \/ RpPurge(p)
  \/ RpTx(p)
  \/ RpNotify(p)
  \/ ChangePasswordFind(p)
  \/ ChangePasswordUpdate(p)
  \/ CleanupExpiredTokens(p)
  \/ DeactivateAccount(p)
  \/ ReactivateAccount(p)

(* concurrent requests *)
Next == Tick \/ \E p \in Procs : Step(p)

Spec == Init /\ [][Next]_vars

(* one request at a time: every call returns before the next begins *)
SeqNext == Tick \/ Step(1)

SeqSpec == Init /\ [][SeqNext]_vars

(* issuance and verification of bearer tokens, in a deployment with or
   without JWT_SECRET: register and login one at a time, the clock of the
   token lifetime, and the two verifiers *)
JwtInit ==
  /\ InitStore
  /\ jwtSecret \in JwtSecrets

JwtNext ==
  \/ JwtTick
  \/ (calls < MaxSignIns /\ RegisterFindFrom(1, Passwords \cup BoundaryPasswords))
  \/ RegisterCreate(1)
  \/ (calls < MaxSignIns /\ LoginFind(1))
  \/ LoginUpdate(1)
  \/ VerifyToken
  \/ AuthenticateToken

JwtSpec == JwtInit /\ [][JwtNext]_vars

(* the profile operations next to register, login, the activation switch
   and the issue of reset tokens, as concurrent requests *)
ProfileStep(p) ==
  \/ RegisterFindFrom(p, {"secret1"})
  \/ RegisterCreate(p)
  \/ LoginFind(p)
  \/ LoginUpdate(p)
  \/ GetProfile(p)
  \/ GetUserById(p)
  \/ GetAllUsers(p)
  \/ UpdateProfileFind(p)
  \/ UpdateProfileCheck(p)
  \/ UpdateProfileUpdate(p)
  \/ DeactivateAccount(p)
  \/ ReactivateAccount(p)
  \/ GenFind(p)
  \/ GenDelete(p)
  \/ GenCreate(p)
  \/ FpMail(p)

ProfileNext == \E p \in Procs : ProfileStep(p)

ProfileSpec == Init /\ [][ProfileNext]_vars

(* requests one at a time next to the scheduled cleanup job; the job
   recurs, and a run in which the store accepts the delete is not put off
   for ever *)
CronNext ==
  \/ Tick
  \/ RegisterFindFrom(1, {"secret1"})
  \/ RegisterCreate(1)
  \/ GenFind(1)
  \/ GenDelete(1)
  \/ GenCreate(1)
  \/ FpMail(1)
  \/ RpFind(1)
  \/ RpPurge(1)
  \/ RpTx(1)
  \/ RpNotify(1)
  \/ CronCleanup

CronSpec == Init /\ [][CronNext]_vars /\ WF_vars(CronCleanupRun(FALSE))

(* requests sent to the router of the auth routes, in a deployment with
   or without JWT_SECRET, before and after the lifetime of the bearer token
   a register call returned *)
MaxRouteCalls == 1

RouteNext ==
  \/ JwtTick
  \/ (calls < MaxRouteCalls /\ RegisterFindFrom(1, {"secret1"}))
  \/ RegisterCreate(1)
  \/ RouteRequest

RouteSpec == JwtInit /\ [][RouteNext]_vars

(* requests sent to authMiddleware, in a deployment with or without
   JWT_SECRET: register and deactivateAccount, the clock of the token
   lifetime, and the middleware *)
MwNext ==
  \/ JwtTick
  \/ (calls < MaxSignIns /\ RegisterFindFrom(1, {"secret1"}))
  \/ RegisterCreate(1)
  \/ (calls < MaxSignIns /\ DeactivateAccount(1))
  \/ AuthMiddleware

MwSpec == JwtInit /\ [][MwNext]_vars

(* ====================================================================== *)
(* Properties                                                             *)
(* ====================================================================== *)

(* ---- observing calls in a step --------------------------------------- *)
(* the step starts a call of method op that returns or throws within its
   first await segment *)
ReturnsAtOnce(op) ==
  /\ calls' = calls + 1
  /\ pc' = pc
  /\ last'.op = op

(* the step starts a call of method op by p that suspends *)
SuspendsIn(p, op) ==
  /\ calls' = calls + 1
  /\ pc[p] = "idle"
  /\ pc'[p] # "idle"
  /\ call'[p].op = op

(* the step is the segment named at of p's call, and the call ends with it *)
Ends(p, at) ==
  /\ pc[p] = at
  /\ pc'[p] = "idle"

(* the step is the segment named at of p's call *)
Leaves(p, at) ==
  /\ pc[p] = at
  /\ pc'[p] # at

(* the user a raw secret was issued for *)
ownerOf(raw) == issued[issueIndex(raw)].userId

IssuedRaws == {issued[k].raw : k \in 1..Len(issued)}

(* C1: in every reachable state, under any interleaving of concurrent
   generatePasswordResetToken, resetPassword and cleanupExpiredTokens calls,
   each user owns at most one password_resets row. *)
C1_AtMostOneTokenPerUser ==
  \A u \in UserIds : Cardinality(tokensOf(u)) <= 1

(* C2: the password update and the token deletion of resetPassword are
   all-or-nothing: the segment that runs the two writes either replaces the
   owner's digest by the digest of the new password, removes the consumed
   row and goes on to the confirmation, or throws and leaves every user and
   every token as it was, whichever write the store rejects. *)
C2_ResetAllOrNothing ==
  [][\A p \in Procs :
       Leaves(p, "rp_tx") =>
         LET rec == loc[p].rec
             u == rec.userId
         IN
         \/ /\ pc'[p] = "rp_notify"
            /\ last' = last
            /\ users'[u].password # users[u].password
            /\ bcryptCompare(call[p].password, users'[u].password)
            /\ users' = [users EXCEPT ![u].password = users'[u].password]
            /\ rec \in tokens
            /\ tokens' = tokens \ {rec}
         \/ /\ pc'[p] = "idle"
            /\ last'.out # OK
            /\ users' = users
            /\ tokens' = tokens]_vars

(* a call failed part-way, on a write the store rejected, after another
   call had succeeded with the same token *)
C2_Witness ==
  /\ last.op = "resetPassword"
  /\ last.out = ErrStoreUnavailable
  /\ last.token \in consumed
  /\ \E i \in UserIds : ~bcryptCompare(last.password, users[i].password)

(* C3: of two concurrent resetPassword calls that both looked the same
   unexpired token up before either wrote, the call that writes second
   fails with 'Invalid or expired reset token' (or, if the store is down,
   with the store's failure) and stores nothing. *)
C3_LosingResetFailsInvalidToken ==
  [][\A p \in Procs :
       (Leaves(p, "rp_tx") /\ call[p].token \in consumed) =>
         /\ pc'[p] = "idle"
         /\ last'.out \in {ErrInvalidToken, ErrStoreUnavailable}
         /\ users' = users]_vars

(* C4: a reset token is single-use: once resetPassword has succeeded with
   a raw token, every later resetPassword call with that raw token fails
   and leaves every password digest (and every token) as it was; the
   failure is 'Invalid or expired reset token' whenever the new password
   passes the length check that precedes the lookup. *)
C4_SingleUse ==
  [][\A t \in consumed :
       /\ \A p \in Procs :
            ~(SuspendsIn(p, "resetPassword") /\ call'[p].token = t)
       /\ (ReturnsAtOnce("resetPassword") /\ last'.token = t) =>
            /\ last'.out # OK
            /\ Len(last'.password) >= MinPassword => last'.out = ErrInvalidToken
            /\ users' = users
            /\ tokens' = tokens]_vars

C4_Witness ==
  /\ last.op = "resetPassword"
  /\ last.out = ErrInvalidToken
  /\ last.token \in consumed
  /\ \E i \in UserIds : bcryptCompare("newpass1", users[i].password)

(* C5: when generatePasswordResetToken is called a second time for the same
   active user, the new row is the user's only row, so the first raw secret
   is invalidated: a later resetPassword with it fails with 'Invalid or
   expired reset token' (for a new password of valid length) and changes
   nothing, which leaves the second secret's row in place. *)
C5_SecondIssueInvalidatesFirst ==
  [][/\ \A p \in Procs :
          Ends(p, "fp_mail") =>
            /\ last'.out = OK
            /\ last'.raw = loc[p].raw
     /\ \A p \in Procs :
          Leaves(p, "gen_create") =>
            /\ pc'[p] = "fp_mail"
            /\ loc'[p].raw = loc[p].raw
            /\ {r \in tokens' : r.userId = loc[p].user.id} =
                 {[id |-> issueIndex(loc[p].raw), userId |-> loc[p].user.id,
                   token |-> sha256(loc[p].raw), expiresAt |-> loc[p].at]}
            /\ \A t \in superseded' : findResetRecord(sha256(t))' = NoRec
     /\ \A t \in superseded :
          /\ \A p \in Procs :
               ~(SuspendsIn(p, "resetPassword") /\ call'[p].token = t)
          /\ (ReturnsAtOnce("resetPassword") /\ last'.token = t) =>
               /\ last'.out # OK
               /\ Len(last'.password) >= MinPassword =>
                    last'.out = ErrInvalidToken
               /\ users' = users
               /\ tokens' = tokens]_vars

C5_Witness ==
  /\ last.op = "resetPassword"
  /\ last.out = ErrInvalidToken
  /\ last.token \in superseded
  /\ \E r \in tokensOf(ownerOf(last.token)) :
       /\ r.token = sha256(issued[Len(issued)].raw)
       /\ r.expiresAt >= now

(* C6: resetPassword with a token whose expiresAt has passed (and a new
   password of valid length) deletes the row and fails with 'Reset token
   has expired...', a message other than 'Invalid or expired reset token',
   leaving every user as it was; a later resetPassword with the same raw
   token fails with 'Invalid or expired reset token'. *)
C6_ExpiredTokenPurged ==
  [][/\ \A t \in IssuedRaws :
          LET rec == findResetRecord(sha256(t)) IN
          (rec # NoRec /\ now > rec.expiresAt) =>
            /\ (ReturnsAtOnce("resetPassword") /\ last'.token = t) =>
                 /\ Len(last'.password) < MinPassword
                 /\ last'.out = ErrShortPassword
                 /\ users' = users
                 /\ tokens' = tokens
            /\ \A p \in Procs :
                 (SuspendsIn(p, "resetPassword") /\ call'[p].token = t) =>
                   /\ pc'[p] = "rp_purge"
                   /\ loc'[p].rec = rec
     /\ \A p \in Procs :
          Ends(p, "rp_purge") =>
            /\ now > loc[p].rec.expiresAt
            /\ last'.out = ErrTokenExpired
            /\ last'.out # ErrInvalidToken
            /\ users' = users
            /\ loc[p].rec \in tokens
            /\ tokens' = tokens \ {loc[p].rec}
     /\ \A t \in purged :
          /\ \A p \in Procs :
               ~(SuspendsIn(p, "resetPassword") /\ call'[p].token = t)
          /\ (ReturnsAtOnce("resetPassword") /\ last'.token = t) =>
               /\ last'.out # OK
               /\ Len(last'.password) >= MinPassword =>
                    last'.out = ErrInvalidToken
               /\ users' = users
               /\ tokens' = tokens]_vars

C6_Witness ==
  /\ last.op = "resetPassword"
  /\ last.out = ErrInvalidToken
  /\ last.token \in purged

(* C7: an expired token is inert: no resetPassword call replaces a password
   digest at a moment when the clock is past the expiresAt of the row the
   call consumes. *)
C7_ExpiredTokenInert ==
  [][\A p \in Procs :
       ( /\ Leaves(p, "rp_tx")
         /\ users'[loc[p].rec.userId].password
              # users[loc[p].rec.userId].password )
       => ~(now > loc[p].rec.expiresAt)]_vars

(* C8: for every registered user, active or not, login with a wrong
   password fails with 'Invalid email or password', the failure of login
   with an email that is not registered. *)
C8_WrongPasswordLikeUnknownEmail ==
  [][\A e \in Emails, pw \in Passwords :
       LET i == findUserByEmail(toLowerCase(e)) IN
       ( /\ i # 0
         /\ ~bcryptCompare(pw, users[i].password)
         /\ ReturnsAtOnce("login")
         /\ last'.email = e
         /\ last'.password = pw )
       => last'.out = loginCheck(0, pw)]_vars

(* C9: for every (email, password, name) with an unregistered email and a
   password of at least 6 characters register succeeds, and a login that
   follows it with the same password and the same email in any letter case
   succeeds and returns the registered user, whose email is the lowercase
   form of the registered email. *)
C9_RegisterThenLogin ==
  [][/\ \A e \in Emails, pw \in Passwords :
          (findUserByEmail(toLowerCase(e)) = 0 /\ Len(pw) >= MinPassword) =>
            ~(ReturnsAtOnce("register") /\ last'.email = e
                                        /\ last'.password = pw)
     /\ \A p \in Procs :
          Ends(p, "register_create") =>
            /\ last'.out = OK
            /\ last'.user.email = toLowerCase(call[p].email)
            /\ last'.user.id = Len(users')
     /\ (last.op = "register" /\ last.out = OK) =>
          /\ \A e \in Emails :
               toLowerCase(e) = toLowerCase(last.email) =>
                 ~(ReturnsAtOnce("login") /\ last'.email = e
                                          /\ last'.password = last.password)
          /\ \A p \in Procs :
               ( /\ Ends(p, "login_update")
                 /\ toLowerCase(call[p].email) = toLowerCase(last.email)
                 /\ call[p].password = last.password )
               => /\ last'.out = OK
                  /\ last'.user.id = last.user.id
                  /\ last'.user.email = toLowerCase(last.email)]_vars

C9_Witness ==
  /\ calls = 2
  /\ last.op = "login"
  /\ last.out = OK
  /\ last.email = "Alice@Example.com"
  /\ last.user.email = "alice@example.com"

(* C10: after generatePasswordResetToken for an active registered user
   there is exactly one password_resets row for that user; after a
   successful resetPassword(rawSecret, newPassword) there is none, and a
   login of that user that follows succeeds with newPassword and fails with
   'Invalid email or password' with any other password, the previous one
   included. *)
C10_ResetThenLogin ==
  [][/\ \A p \in Procs :
          Leaves(p, "gen_create") =>
            /\ pc'[p] = "fp_mail"
            /\ loc'[p].raw = loc[p].raw
            /\ Cardinality({r \in tokens' : r.userId = loc[p].user.id}) = 1
     /\ \A p \in Procs :
          (Leaves(p, "rp_tx") /\ pc'[p] = "rp_notify") =>
            {r \in tokens' : r.userId = loc[p].rec.userId} = {}
     /\ \A p \in Procs :
          Ends(p, "rp_notify") =>
            /\ last'.out = OK
            /\ last'.token = call[p].token
     /\ (last.op = "resetPassword" /\ last.out = OK) =>
          LET u == ownerOf(last.token) IN
          /\ \A e \in Emails :
               ( /\ findUserByEmail(toLowerCase(e)) = u
                 /\ ReturnsAtOnce("login")
                 /\ last'.email = e )
               => /\ last'.password # last.password
                  /\ last'.out = ErrInvalidCredentials
          /\ \A p \in Procs :
               ( /\ SuspendsIn(p, "login")
                 /\ findUserByEmail(toLowerCase(call'[p].email)) = u )
               => call'[p].password = last.password
          /\ \A p \in Procs :
               (Ends(p, "login_update") /\ loc[p].user.id = u) =>
                 /\ call[p].password = last.password
                 /\ last'.out = OK
                 /\ last'.user.id = u]_vars

C10_Witness ==
  /\ calls = 4
  /\ last.op = "login"
  /\ last.out = OK
  /\ last.password = "newpass1"
  /\ consumed # {}
  /\ tokensOf(last.user.id) = {}
  /\ ~bcryptCompare("secret1", users[last.user.id].password)

(* C11: changePassword with a currentPassword that does not verify against
   the digest of an active user throws 'Current password is incorrect' (the
   wrong-credentials failure of that method, unlike its not-found,
   deactivated and short-password failures) and writes nothing; a login of
   that user that follows with the password the digest was made of
   succeeds. *)
C11_WrongCurrentPasswordChangesNothing ==
  [][/\ \A uid \in UserIds, cur \in Passwords :
          (users[uid].isActive /\ ~bcryptCompare(cur, users[uid].password)) =>
            /\ \A p \in Procs :
                 ~(/\ SuspendsIn(p, "changePassword")
                   /\ call'[p].userId = uid
                   /\ call'[p].password = cur)
            /\ ( /\ ReturnsAtOnce("changePassword")
                 /\ last'.userId = uid
                 /\ last'.password = cur )
               => /\ last'.out = ErrCurrentPassword
                  /\ last'.out \notin {OK, ErrUserNotFound, ErrDeactivated,
                                       ErrShortNewPassword}
                  /\ users' = users
                  /\ tokens' = tokens
     /\ (last.op = "changePassword" /\ last.out = ErrCurrentPassword) =>
          LET u == last.userId IN
          /\ \A e \in Emails, pw \in Passwords :
               ( /\ findUserByEmail(toLowerCase(e)) = u
                 /\ bcryptCompare(pw, users[u].password) )
               => ~(ReturnsAtOnce("login") /\ last'.email = e
                                           /\ last'.password = pw)
          /\ \A p \in Procs :
               (Ends(p, "login_update") /\ loc[p].user.id = u) =>
                 /\ bcryptCompare(call[p].password, users[u].password)
                 /\ call[p].password # last.password
                 /\ last'.out = OK
                 /\ last'.user.id = u]_vars

(* a login with the old password is past its checks right after a change
   with a wrong current password has failed *)
C11_Witness ==
  /\ last.op = "changePassword"
  /\ last.out = ErrCurrentPassword
  /\ last.newPassword = "newpass1"
  /\ \E p \in Procs :
       /\ pc[p] = "login_update"
       /\ loc[p].user.id = last.userId
       /\ call[p].password = "secret1"

(* C12: generatePasswordResetToken for an email that matches no user
   returns null, not an error: the call ends in its first segment, draws no
   secret and creates, deletes and modifies no password_resets row and no
   user. *)
C12_UnknownEmailIsNoOp ==
  [][\A e \in Emails :
       findUserByEmail(toLowerCase(e)) = 0 =>
         /\ \A p \in Procs :
              ~(/\ SuspendsIn(p, "generatePasswordResetToken")
                /\ call'[p].email = e)
         /\ ( /\ ReturnsAtOnce("generatePasswordResetToken")
              /\ last'.email = e )
            => /\ last'.out = NullResult
               /\ last'.raw = ""
               /\ users' = users
               /\ tokens' = tokens
               /\ issued' = issued]_vars

(* null was returned for an unregistered email while another user's token
   was stored *)
C12_Witness ==
  /\ last.op = "generatePasswordResetToken"
  /\ last.out = NullResult
  /\ last.email = "bob@example.com"
  /\ findUserByEmail("bob@example.com") = 0
  /\ tokens # {}

(* C13: generatePasswordResetToken for a registered but deactivated user
   fails with 'Account is deactivated', an error the caller can tell from
   the method's other failures (a store failure among them), draws no
   secret, creates no row and leaves the user's rows as they were. *)
C13_DeactivatedIssueFailsDistinctly ==
  [][\A e \in Emails :
       LET i == findUserByEmail(toLowerCase(e)) IN
       (i # 0 /\ ~users[i].isActive) =>
         /\ \A p \in Procs :
              ~(/\ SuspendsIn(p, "generatePasswordResetToken")
                /\ call'[p].email = e)
         /\ ( /\ ReturnsAtOnce("generatePasswordResetToken")
              /\ last'.email = e )
            => /\ last'.out = ErrDeactivated
               /\ last'.out # genCatch(ErrStoreUnavailable)
               /\ users' = users
               /\ tokens' = tokens
               /\ issued' = issued]_vars

(* the acknowledgement of the forgot-password endpoint *)
Acknowledged == json(200, TRUE, MsgResetRequested)

(* C14: the forgot-password endpoint answers every request that carries an
   email with the same acknowledgement (status 200, 'If the email exists, a
   password reset link has been sent'), whether the email is unregistered,
   registered and active, or registered and deactivated, and whatever the
   notifier did with the reset email. *)
C14_SameAcknowledgement ==
  (last.op = "generatePasswordResetToken" /\ last.email # "")
    => last.http = Acknowledged

(* C15: the reset-password endpoint answers 'Invalid or expired reset
   token' (no row matches) with the invalid-token guidance and 'Reset token
   has expired...' (the row is past expiresAt) with the expired-token
   guidance, two different messages. *)
C15_GuidanceTellsInvalidFromExpired ==
  /\ MsgGuidanceInvalid # MsgGuidanceExpired
  /\ last.op = "resetPassword" =>
       /\ last.out = ErrInvalidToken =>
            last.http = json(400, FALSE, MsgGuidanceInvalid)
       /\ last.out = ErrTokenExpired =>
            last.http = json(400, FALSE, MsgGuidanceExpired)

(* C16: resetPassword calls the notifier only after the transaction has
   committed: the call reaches the notification segment from the
   transaction segment alone, in the step that stores the new digest and
   removes the row; the notification segment writes nothing and ends the
   call with success (and the endpoint with status 200), whether the
   notifier sent the mail, reported a failure or threw. *)
C16_ConfirmationAfterCommit ==
  [][\A p \in Procs :
       /\ (pc[p] # "rp_notify" /\ pc'[p] = "rp_notify") =>
            /\ pc[p] = "rp_tx"
            /\ bcryptCompare(call[p].password,
                             users'[loc[p].rec.userId].password)
            /\ users'[loc[p].rec.userId].password
                 # users[loc[p].rec.userId].password
            /\ loc[p].rec \in tokens
            /\ loc[p].rec \notin tokens'
            /\ call[p].token \in consumed'
       /\ Leaves(p, "rp_notify") =>
            /\ pc'[p] = "idle"
            /\ call[p].token \in consumed
            /\ loc[p].rec \notin tokens
            /\ last'.mail \in MailOutcomes
            /\ last'.out = OK
            /\ last'.http = json(200, TRUE, MsgResetDone)
            /\ users' = users
            /\ tokens' = tokens]_vars

(* the notifier threw, the call returned success and the new password is
   the stored one *)
C16_Witness ==
  /\ last.op = "resetPassword"
  /\ last.mail = "thrown"
  /\ last.out = OK
  /\ last.token \in consumed
  /\ findResetRecord(sha256(last.token)) = NoRec
  /\ bcryptCompare(last.password, users[ownerOf(last.token)].password)

(* C17: once the reset token is stored, the forgot-password request is
   acknowledged as successful whatever the notifier did with the reset
   email. *)
C17_MailFailureStillAcknowledged ==
  [][\A p \in Procs :
       Leaves(p, "fp_mail") =>
         /\ loc[p].raw \in IssuedRaws
         /\ last'.mail \in MailOutcomes
         /\ last'.http = Acknowledged]_vars

(* the error jwt.verify threw in the verification done last *)
thrownInVerdict ==
  jwtVerify(verdict.token,
            IF verdict.by = "verifyToken" /\ jwtSecret = ""
            THEN DefaultSecret ELSE jwtSecret,
            verdict.at)

(* C18: verifyToken reports a token past its expiry with a failure the
   caller can tell from the failure it reports for a token of invalid
   structure or signature. *)
C18_VerifyTokenTellsExpiredFromMalformed ==
  (verdict.by = "verifyToken" /\ thrownInVerdict = TokenExpiredError)
    => /\ verdict.out # OK
       /\ verdict.out # verifyToken(Garbage).out
       /\ verdict.out # verifyToken([verdict.token EXCEPT
                                       !.key = "another-key"]).out

(* C19: when authenticateToken verifies a bearer token (the route is not
   public, the method is not OPTIONS, JWT_SECRET is configured), it answers
   a token past its expiry with status 401, 'Token has expired' and
   TOKEN_EXPIRED, and a token of invalid structure or signature with status
   401, 'Invalid token format' and MALFORMED_TOKEN, and calls next for
   neither; where JWT_SECRET is not configured every token-bearing request
   to a protected route is answered 500 without next. *)
C19_MiddlewareTellsExpiredFromMalformed ==
  ( /\ verdict.by = "authenticateToken"
    /\ ~isPublicRoute(verdict.path)
    /\ verdict.method # "OPTIONS"
    /\ verdict.token # NoJwt )
  => IF jwtSecret = ""
     THEN verdict.status = 500 /\ ~verdict.next
     ELSE /\ thrownInVerdict = TokenExpiredError =>
               /\ verdict.status = 401
               /\ verdict.error = "TOKEN_EXPIRED"
               /\ verdict.message = "Token has expired"
               /\ ~verdict.next
          /\ thrownInVerdict = JsonWebTokenError =>
               /\ verdict.status = 401
               /\ verdict.error = "MALFORMED_TOKEN"
               /\ verdict.message = "Invalid token format"
               /\ ~verdict.next
          /\ thrownInVerdict = "" => verdict.next

(* a token returned by login was rejected as expired a lifetime later *)
C19_Witness ==
  /\ verdict.by = "authenticateToken"
  /\ verdict.error = "TOKEN_EXPIRED"
  /\ verdict.token = last.jwt
  /\ last.op = "login"
  /\ verdict.at \div 1000 >= last.jwt.iat + SevenDays

(* C20: in a deployment without JWT_SECRET no login and no register returns
   a bearer token: the call fails instead of signing with a default key. *)
C20_NoTokenWithoutSigningKey ==
  jwtSecret = "" =>
    /\ last.jwt = NoJwt
    /\ last.op \in {"login", "register"} => last.out # OK

(* C21: verifyToken of the token that login or register returned last
   returns, while fewer than seven days (in the whole seconds of the iat
   and exp claims) have passed since its issue, claims with the id and the
   email of the user it was issued for; from seven days on it fails, with a
   failure that tells the expired token from a malformed one. *)
C21_BearerRoundTrip ==
  ( /\ verdict.by = "verifyToken"
    /\ last.jwt # NoJwt
    /\ verdict.token = last.jwt )
  => IF verdict.at \div 1000 < last.jwt.iat + SevenDays
     THEN /\ verdict.out = OK
          /\ verdict.user.id = last.user.id
          /\ verdict.user.userId = last.user.id
          /\ verdict.user.email = last.user.email
     ELSE /\ verdict.out # OK
          /\ verdict.user = NoClaims
          /\ verdict.out # verifyToken(Garbage).out

(* C22: register with an email whose lowercase form is the stored email of
   a user, in any letter case, throws 'User with this email already exists'
   in its first segment: no user is created, every user stays as it was and
   no bearer token is returned. *)
C22_DuplicateEmailConflicts ==
  [][\A e \in Emails :
       findUserByEmail(toLowerCase(e)) # 0 =>
         /\ \A p \in Procs :
              ~(SuspendsIn(p, "register") /\ call'[p].email = e)
         /\ (ReturnsAtOnce("register") /\ last'.email = e) =>
              /\ last'.out = ErrConflict
              /\ last'.user = NoUser
              /\ last'.jwt = NoJwt
              /\ users' = users
              /\ tokens' = tokens]_vars

(* the email was registered in lowercase and refused in mixed case *)
C22_Witness ==
  /\ last.op = "register"
  /\ last.out = ErrConflict
  /\ last.email = "Alice@Example.com"
  /\ findUserByEmail("alice@example.com") # 0
  /\ Len(users) = 1

(* C24: register with an email no user holds and a password shorter than 6
   characters throws 'Password must be at least 6 characters long' and
   creates no user; with a password of 6 characters or more, of exactly 6
   included, it goes on to create the user and succeeds. *)
C24_PasswordMinimumAtRegister ==
  [][/\ \A e \in Emails, pw \in Passwords \cup BoundaryPasswords :
          findUserByEmail(toLowerCase(e)) = 0 =>
            IF Len(pw) < MinPassword
            THEN /\ \A p \in Procs :
                      ~(/\ SuspendsIn(p, "register")
                        /\ call'[p].email = e
                        /\ call'[p].password = pw)
                 /\ ( /\ ReturnsAtOnce("register")
                      /\ last'.email = e
                      /\ last'.password = pw )
                    => /\ last'.out = ErrShortPassword
                       /\ last'.jwt = NoJwt
                       /\ users' = users
            ELSE ~( /\ ReturnsAtOnce("register")
                    /\ last'.email = e
                    /\ last'.password = pw )
     /\ \A p \in Procs :
          Ends(p, "register_create") =>
            /\ Len(call[p].password) >= MinPassword
            /\ last'.out = OK
            /\ Len(users') = Len(users) + 1
            /\ bcryptCompare(call[p].password, users'[Len(users')].password)]_vars

(* a user was registered with a password of exactly 6 characters *)
C24_Witness ==
  /\ last.op = "register"
  /\ last.out = OK
  /\ Len(last.password) = MinPassword
  /\ bcryptCompare(last.password, users[last.user.id].password)

(* C23: of two concurrent register calls for the same lowercase email that
   both passed the existence check, one creates the user and the other
   fails with 'User with this email already exists', the failure of the
   existence check, and creates nothing. *)
C23_LosingRegisterConflicts ==
  [][\A p \in Procs :
       ( /\ Leaves(p, "register_create")
         /\ findUserByEmail(toLowerCase(call[p].email)) # 0 )
       => /\ pc'[p] = "idle"
          /\ last'.out = ErrConflict
          /\ users' = users]_vars

(* C25: a login that succeeds sets the lastLoginAt of its user, and nothing
   else, to the time the call read from the clock, a time within the call;
   a login that fails (unknown email, wrong password, deactivated account)
   ends in its first segment and leaves every user and every token as it
   was. *)
C25_LoginStampsLastLoginAt ==
  [][/\ ReturnsAtOnce("login") =>
          /\ last'.out \in {ErrInvalidCredentials, ErrDeactivated}
          /\ users' = users
          /\ tokens' = tokens
          /\ issued' = issued
     /\ \A p \in Procs :
          /\ SuspendsIn(p, "login") =>
               /\ loc'[p].at = now
               /\ users' = users
               /\ tokens' = tokens
          /\ Leaves(p, "login_update") =>
               LET u == loc[p].user.id IN
               /\ pc'[p] = "idle"
               /\ last'.out = OK
               /\ loc[p].at <= now
               /\ users'[u].lastLoginAt = loc[p].at
               /\ users' = [users EXCEPT ![u].lastLoginAt = loc[p].at]
               /\ tokens' = tokens]_vars

(* a user who had logged in at time 0 logged in again an hour later *)
C25_Witness ==
  /\ last.op = "login"
  /\ last.out = OK
  /\ now = TTL
  /\ users[last.user.id].lastLoginAt = TTL
  /\ calls = 3

(* the refusal of a call of op for a deactivated user: the failure and
   nothing written, drawn or issued *)
blocked(op, out) ==
  /\ out = IF op = "generatePasswordResetToken" THEN ErrGenerateFailed
           ELSE IF op = "resetPassword"
           THEN IF Len(last'.password) < MinPassword THEN ErrShortPassword
                ELSE ErrDeactivated
           ELSE ErrDeactivated
  /\ users' = users /\ tokens' = tokens /\ issued' = issued
  /\ last'.jwt = NoJwt /\ last'.user = NoUser /\ last'.raw = ""

(* the row id a starting call c is about (0: none); for resetPassword the
   owner of the unexpired record its token names *)
targetOf(c) ==
  IF c.op \in {"login", "generatePasswordResetToken"}
  THEN findUserByEmail(toLowerCase(c.email))
  ELSE IF c.op = "changePassword"
  THEN IF c.userId \in UserIds THEN c.userId ELSE 0
  ELSE LET rec == findResetRecord(sha256(c.token)) IN
       IF c.token # "" /\ rec # NoRec /\ now <= rec.expiresAt
       THEN rec.userId ELSE 0

CredentialOps ==
  {"login", "changePassword", "generatePasswordResetToken", "resetPassword"}

(* C26: a call of login, changePassword, generatePasswordResetToken or
   resetPassword (with the user's unexpired token) that starts while its
   user has isActive = false fails within its first segment: it writes no
   user row (no digest, no lastLoginAt), creates or deletes no reset row,
   draws no secret and issues no bearer token.  reactivateAccount sets
   isActive back to true and changes nothing else, and a call for an active
   user never fails for deactivation. *)
C26_DeactivatedUserIsBlocked ==
  [][/\ \A op \in CredentialOps :
          ReturnsAtOnce(op) =>
            LET u == targetOf(last') IN
            /\ (u # 0 /\ ~users[u].isActive) => blocked(op, last'.out)
            /\ (u # 0 /\ users[u].isActive) =>
                 last'.out \notin {ErrDeactivated, ErrGenerateFailed}
     /\ \A p \in Procs : \A op \in CredentialOps :
          (SuspendsIn(p, op) /\ pc'[p] # "rp_purge") =>
            LET u == targetOf(call'[p]) IN u # 0 /\ users[u].isActive
     /\ (ReturnsAtOnce("reactivateAccount") /\ last'.out = OK) =>
          /\ last'.userId \in UserIds
          /\ users' = [users EXCEPT ![last'.userId].isActive = TRUE]
          /\ tokens' = tokens /\ issued' = issued]_vars

(* resetPassword refused for the unexpired token of a deactivated owner *)
C26_Witness ==
  /\ last.op = "resetPassword" /\ last.out = ErrDeactivated
  /\ \E r \in tokens : /\ r.token = sha256(last.token)
                       /\ now <= r.expiresAt
                       /\ ~users[r.userId].isActive

(* the failure conditions of changePassword in the order NotFound,
   AccountDeactivated, InvalidCredentials, InvalidInput: a call that returns
   within its first segment reports the first that applies and writes
   nothing, and a call that goes on to the update meets none of them *)
changePasswordOrder ==
  /\ ReturnsAtOnce("changePassword") =>
       LET uid == last'.userId IN
       /\ last'.out =
            IF uid \notin UserIds THEN ErrUserNotFound
            ELSE IF ~users[uid].isActive THEN ErrDeactivated
            ELSE IF users[uid].password.of # last'.password
            THEN ErrCurrentPassword
            ELSE ErrShortNewPassword
       /\ \/ uid \notin UserIds
          \/ ~users[uid].isActive
          \/ users[uid].password.of # last'.password
          \/ Len(last'.newPassword) < MinPassword
       /\ users' = users /\ tokens' = tokens /\ issued' = issued
  /\ \A p \in Procs :
       /\ SuspendsIn(p, "changePassword") =>
            LET uid == call'[p].userId IN
            /\ uid \in UserIds /\ users[uid].isActive
            /\ users[uid].password.of = call'[p].password
            /\ Len(call'[p].newPassword) >= MinPassword
            /\ users' = users /\ tokens' = tokens
       /\ Leaves(p, "cp_update") =>
            LET uid == call[p].userId IN
            /\ pc'[p] = "idle" /\ last'.out = OK
            /\ users'[uid].password # users[uid].password
            /\ users' = [users EXCEPT ![uid].password = users'[uid].password]
            /\ tokens' = tokens /\ last'.jwt = NoJwt

(* the outcome of a login of user uid with password pw in the state after
   the step *)
loginAfter(uid, pw) ==
  IF ~users'[uid].isActive THEN ErrDeactivated
  ELSE IF users'[uid].password.of # pw THEN ErrInvalidCredentials
  ELSE OK

(* C27 as stated: changePassword reports the first of NotFound,
   AccountDeactivated, InvalidCredentials, InvalidInput that applies and
   leaves the digest unchanged on every failure; on success the digest is
   replaced so that login with newPassword succeeds and login with the old
   password fails. *)
C27_OldPasswordFailsAfterChange ==
  [][/\ changePasswordOrder
     /\ \A p \in Procs :
          Leaves(p, "cp_update") =>
            LET uid == call[p].userId IN
            /\ loginAfter(uid, call[p].newPassword) = OK
            /\ loginAfter(uid, call[p].password) = ErrInvalidCredentials]_vars

(* C27, amended: changePassword reports the first of NotFound,
   AccountDeactivated, InvalidCredentials, InvalidInput that applies and
   leaves the digest unchanged on every failure; on success the digest is
   replaced so that login with newPassword succeeds and login with any other
   password fails, the old password included when it differs from the new
   one. *)
C27_ChangePasswordOrder ==
  [][/\ changePasswordOrder
     /\ \A p \in Procs :
          Leaves(p, "cp_update") =>
            LET uid == call[p].userId IN
            /\ loginAfter(uid, call[p].newPassword) = OK
            /\ \A pw \in Passwords \cup BoundaryPasswords :
                 pw # call[p].newPassword =>
                   loginAfter(uid, pw) = ErrInvalidCredentials
            /\ call[p].password # call[p].newPassword =>
                 loginAfter(uid, call[p].password) = ErrInvalidCredentials]_vars

(* a change to a different password has succeeded: the new one verifies,
   the old one no longer does *)
C27_Witness ==
  /\ last.op = "changePassword" /\ last.out = OK
  /\ last.password # last.newPassword
  /\ bcryptCompare(last.newPassword, users[last.userId].password)
  /\ ~bcryptCompare(last.password, users[last.userId].password)

(* C28: resetPassword reports the first that applies of InvalidInput (new
   password shorter than 6), InvalidToken (no record for the digest),
   TokenExpired, AccountDeactivated (owner inactive).  A call refused for
   one of the other three returns within its first segment with users and
   tokens unchanged; a call for an expired record goes on to the delete,
   which removes exactly that record and then throws TokenExpired; only a
   call that meets none of the four goes on to the transaction, and a
   transaction that fails leaves users and tokens unchanged. *)
C28_ResetFailureOrder ==
  [][/\ (ReturnsAtOnce("resetPassword") /\ last'.token # "") =>
          LET rec == findResetRecord(sha256(last'.token)) IN
          /\ last'.out =
               IF Len(last'.password) < MinPassword THEN ErrShortPassword
               ELSE IF rec = NoRec THEN ErrInvalidToken
               ELSE ErrDeactivated
          /\ \/ Len(last'.password) < MinPassword
             \/ rec = NoRec
             \/ /\ now <= rec.expiresAt
                /\ ~users[rec.userId].isActive
          /\ users' = users /\ tokens' = tokens
          /\ consumed' = consumed /\ purged' = purged
     /\ \A p \in Procs :
          /\ SuspendsIn(p, "resetPassword") =>
               LET rec == findResetRecord(sha256(call'[p].token)) IN
               /\ Len(call'[p].password) >= MinPassword
               /\ rec # NoRec /\ loc'[p].rec = rec
               /\ IF now > rec.expiresAt THEN pc'[p] = "rp_purge"
                  ELSE users[rec.userId].isActive /\ pc'[p] = "rp_tx"
               /\ users' = users /\ tokens' = tokens
          /\ Leaves(p, "rp_purge") =>
               /\ pc'[p] = "idle" /\ last'.out = ErrTokenExpired
               /\ loc[p].rec \in tokens /\ loc[p].rec.expiresAt < now
               /\ tokens' = tokens \ {loc[p].rec}
               /\ users' = users
               /\ consumed' = consumed
          /\ (Leaves(p, "rp_tx") /\ pc'[p] = "idle") =>
               /\ last'.out \in {ErrStoreUnavailable, ErrRecordNotFound}
               /\ users' = users /\ tokens' = tokens]_vars

(* the expired token of a deactivated owner presented with a valid new
   password: refused as expired, and the record is gone *)
C28_Witness ==
  /\ last.op = "resetPassword" /\ last.out = ErrTokenExpired
  /\ last.token \in IssuedRaws
  /\ ~users[ownerOf(last.token)].isActive
  /\ last.token \in purged
  /\ tokens = {}

(* C29: cleanupExpiredTokens removes exactly the password_resets rows whose
   expiresAt is strictly earlier than the current time and returns their
   number; every other row and every user is unchanged.  It is idempotent:
   the state it leaves holds no row it would remove, and a call that finds
   no such row removes nothing and returns 0. *)
C29_CleanupRemovesExactlyExpired ==
  [][ReturnsAtOnce("cleanupExpiredTokens") =>
       LET expired == {r \in tokens : r.expiresAt < now} IN
       /\ last'.out = OK
       /\ tokens' = {r \in tokens : r.expiresAt >= now}
       /\ tokens \ tokens' = expired
       /\ last'.count = Cardinality(expired)
       /\ users' = users /\ issued' = issued /\ now' = now
       /\ {r \in tokens' : r.expiresAt < now'} = {}
       /\ expired = {} => (tokens' = tokens /\ last'.count = 0)]_vars

(* a cleanup has removed the one expired row and returned 1 *)
C29_Witness ==
  /\ last.op = "cleanupExpiredTokens" /\ last.out = OK
  /\ last.count = 1
  /\ tokens = {}
  /\ Len(issued) = 1 /\ consumed = {} /\ purged = {}

(* C30: every password_resets row holds the sha256 digest of a secret drawn
   for its user, and no row holds a drawn secret itself.  The expiry is
   computed when the secret is drawn, as that moment plus one hour, and the
   row is created with that expiry and the digest of that secret, the raw
   secret going to the caller only.  resetPassword goes on with a record
   only when the record's stored digest equals the digest of the presented
   token, and reports an invalid token exactly when no row has that
   digest. *)
C30_StoredDigestAndExpiry ==
  [][/\ \A r \in tokens' :
          /\ r.id \in 1..Len(issued')
          /\ r.token = sha256(issued'[r.id].raw)
          /\ r.userId = issued'[r.id].userId
          /\ \A k \in 1..Len(issued') : r.token # issued'[k].raw
     /\ \A p \in Procs :
          /\ SuspendsIn(p, "generatePasswordResetToken") =>
               /\ loc'[p].at = now + TTL
               /\ Len(issued') = Len(issued) + 1
               /\ loc'[p].raw = issued'[Len(issued')].raw
               /\ loc'[p].raw \notin IssuedRaws
               /\ tokens' = tokens
          /\ Leaves(p, "gen_delete") => loc'[p] = loc[p]
          /\ Leaves(p, "gen_create") =>
               /\ \E r \in tokens' \ tokens :
                    /\ tokens' = tokens \cup {r}
                    /\ r.token = sha256(loc[p].raw)
                    /\ r.token # loc[p].raw
                    /\ r.expiresAt = loc[p].at
                    /\ r.userId = loc[p].user.id
               /\ pc'[p] = "fp_mail" /\ loc'[p] = loc[p]
          /\ (Leaves(p, "fp_mail") /\ last'.raw # "") =>
               last'.raw = loc[p].raw
          /\ SuspendsIn(p, "resetPassword") =>
               /\ loc'[p].rec \in tokens
               /\ loc'[p].rec.token = sha256(call'[p].token)
     /\ ( /\ ReturnsAtOnce("resetPassword") /\ last'.token # ""
          /\ Len(last'.password) >= MinPassword ) =>
          (last'.out = ErrInvalidToken <=>
             ~\E r \in tokens : r.token = sha256(last'.token))]_vars

(* a stored row for a secret drawn at time 1: its expiry is that time plus
   the hour, and it holds the digest, not the secret *)
C30_Witness ==
  \E r \in tokens :
    /\ r.expiresAt = TTL + 1
    /\ r.token = sha256(issued[r.id].raw)
    /\ r.token # issued[r.id].raw
    /\ \E p \in Procs : pc[p] = "rp_tx" /\ loc[p].rec = r
                        /\ call[p].token = issued[r.id].raw

(* the call of p has deleted the stored token of its user and has not yet
   inserted the new one: an earlier secret of the user was stored (its own
   call is past the create), was neither consumed nor purged nor old enough
   for the cleanup, and the user has no row *)
supersedeGap(p) ==
  /\ pc[p] = "gen_create"
  /\ tokensOf(loc[p].user.id) = {}
  /\ now < TTL
  /\ \E k \in 1..Len(issued) :
       /\ issued[k].userId = loc[p].user.id
       /\ issued[k].raw # loc[p].raw
       /\ issued[k].raw \notin consumed \cup purged
       /\ \A q \in Procs :
            pc[q] \in {"gen_delete", "gen_create"} => loc[q].raw # issued[k].raw

(* C31: the delete of the user's prior tokens and the insert of the new one
   in generatePasswordResetToken take effect as one step: in no state that
   a concurrent request can read has a call deleted the prior token without
   having inserted the new one. *)
C31_SupersedeIsAtomic ==
  \A p \in Procs : ~supersedeGap(p)

(* the fields of a value the service returned *)
fieldsOf(value) == DOMAIN value

(* C32: no value the service returns carries the password digest: the user
   object of register, login, getProfile, updateProfile, deactivateAccount,
   reactivateAccount and getUserById, every row of getAllUsers, the claims
   of the bearer token and the reset data of generatePasswordResetToken
   have no password field. *)
C32_NoPasswordInResults ==
  /\ "password" \notin fieldsOf(last.user)
  /\ \A k \in 1..Len(last.list) : "password" \notin fieldsOf(last.list[k])
  /\ "password" \notin fieldsOf(last.jwt)
  /\ \A i \in UserIds : "password" \in fieldsOf(users[i])

(* getAllUsers has returned two stored rows, newest first *)
C32_Witness ==
  /\ last.op = "getAllUsers" /\ last.out = OK
  /\ Len(last.list) = 2 /\ last.count = 2
  /\ last.list[1].id = 2 /\ last.list[2].email = users[1].email

(* C36: in every state reachable through interleaved register and
   updateProfile calls, no two users rows hold the same email, every stored
   email is its own lowercase form, and so no two rows hold emails that
   differ in letter case only. *)
C36_EmailsUniqueAndLowercase ==
  /\ \A i \in UserIds : users[i].email = toLowerCase(users[i].email)
  /\ \A i, j \in UserIds :
       i # j => toLowerCase(users[i].email) # toLowerCase(users[j].email)

(* an updateProfile that was past its email check when another call took
   the email: the store rejected its update *)
C36_Witness ==
  /\ last.op = "updateProfile" /\ last.out = ErrUniqueViolation
  /\ last.email = "Alice@Example.com"
  /\ \E i \in UserIds : i # last.userId /\ users[i].email = "alice@example.com"

(* C34: under any interleaving of deactivateAccount with changePassword and
   resetPassword calls in flight, no step writes a user's password digest
   while that user's stored isActive is false. *)
C34_NoDigestWriteWhileInactive ==
  [][\A u \in UserIds :
       users'[u].password # users[u].password => users[u].isActive]_vars

(* C35: with JWT_SECRET set or unset, the middleware accepts the unexpired
   bearer token that login or register returned: on a protected path it
   calls next() with req.user.id the id of the user the token was issued
   for. *)
C35_IssuerAndMiddlewareAgreeOnKey ==
  ( /\ verdict.by = "authenticateToken"
    /\ ~isPublicRoute(verdict.path)
    /\ verdict.method # "OPTIONS"
    /\ last.op \in {"login", "register"}
    /\ last.jwt # NoJwt
    /\ verdict.token = last.jwt
    /\ verdict.at \div 1000 < last.jwt.exp )
  => /\ verdict.next
     /\ verdict.user.id = last.user.id

(* C33: with the cleanup job recurring, every password_resets row whose
   expiresAt has passed is eventually gone from the store, whether or not
   anyone presents its token to resetPassword, and also after runs of the
   job that failed. *)
C33_ExpiredRowsAreEventuallyRemoved ==
  \A k \in 1..MaxIssued :
    (\E r \in tokens : r.id = k /\ r.expiresAt < now)
      ~> ~(\E r \in tokens : r.id = k)

(* the job has removed an expired row that nobody presented *)
C33_Witness ==
  /\ cronLog = [ran |-> TRUE, ok |-> TRUE, count |-> 1]
  /\ tokens = {} /\ Len(issued) = 1
  /\ consumed = {} /\ purged = {}
  /\ last.op # "resetPassword"

(* the error jwt.verify threw in authMiddleware's verification done last *)
thrownInAuthMiddleware ==
  jwtVerify(verdict.token,
            IF jwtSecret # "" THEN jwtSecret ELSE DefaultSecret,
            verdict.at)

(* C38: authMiddleware answers a bearer token past its expiry with 'Token
   expired' and a token of invalid signature or structure with 'Invalid
   token'; the two cases never get the same message. *)
C38_AuthMiddlewareTellsExpiredFromInvalid ==
  (verdict.by = "authMiddleware" /\ verdict.token # NoJwt) =>
    /\ thrownInAuthMiddleware = TokenExpiredError =>
         verdict.status = 401 /\ verdict.message = "Token expired"
    /\ thrownInAuthMiddleware = JsonWebTokenError =>
         verdict.status = 401 /\ verdict.message = "Invalid token"

ProtectedNames == {r.name : r \in ProtectedHandlers}

(* C37: a protected handler (profile, change-password, logout) is reached
   only by a request whose bearer token the middleware verified against the
   configured key at that moment, with req.user built from the token's
   claims; a request that is let through by the public-route or the OPTIONS
   bypass, or whose token is missing, malformed or expired, ends at no
   protected handler, whatever its path and method. *)
C37_ProtectedHandlersNeedVerifiedToken ==
  verdict.by = "router" =>
    /\ verdict.handler \in ProtectedNames =>
         /\ verdict.next
         /\ verdict.token # NoJwt
         /\ jwtSecret # ""
         /\ jwtVerify(verdict.token, jwtSecret, verdict.at) = ""
         /\ verdict.user = claimsOf(verdict.token)
         /\ verdict.user.id \in UserIds
         /\ verdict.method # "OPTIONS"
         /\ ~isPublicRoute(verdict.path)
    /\ ( \/ verdict.token = NoJwt
         \/ jwtVerify(verdict.token, jwtSecret, verdict.at) # ""
         \/ verdict.method = "OPTIONS"
         \/ isPublicRoute(verdict.path) )
       => verdict.handler \notin ProtectedNames

(* an OPTIONS request for /profile without a token is let through by the
   middleware and ends at no handler *)
C37_Witness ==
  /\ verdict.by = "router"
  /\ verdict.method = "OPTIONS" /\ verdict.path = "/profile"
  /\ verdict.token = NoJwt
  /\ verdict.next
  /\ verdict.handler = ""

(***************************************************************************)
(* AbokiEmailService.sendBulkEmails, aboki-email.service.ts lines 595-670. *)
(* The call is a loop over userList with two awaits per user: the send     *)
(* call of the switch (lines 607-619) and the delay (lines 651-653).  The  *)
(* default branch of the switch (lines 621-622) has no await.  bulk.i is   *)
(* the 0-based loop index, bulk.at the await the call is suspended at.     *)
(***************************************************************************)
MaxBulk == 3

BulkTypes == {"monthly", "monday", "welcome", "reengagement", "bogus"}

KnownTypes == {"monthly", "monday", "welcome", "reengagement"}

BulkUsers == {[email |-> "alice@example.com", name |-> "Alice"],
              [email |-> "bob@example.com", name |-> "Bob"]}

BulkLists == UNION {[1..n -> BulkUsers] : n \in 0..MaxBulk}

\* What one user's send can do: resolve with success, resolve with
\* { success: false, error } (sendEmail's own catch, lines 104-110), or throw.
SendOutcomes == {"sent", "failed", "thrown"}

\* lines 626-634 and 639-646: the entry pushed for userList[i].
bulkEntry(b, success, error) ==
  [user |-> b.userList[b.i + 1].email, name |-> b.userList[b.i + 1].name,
   index |-> b.i + 1, total |-> Len(b.userList),
   success |-> success, error |-> error]

\* lines 656-669: the two filters and the returned summary.
bulkFinish(b) ==
  [b EXCEPT !.at = "done",
            !.summary =
              [total |-> Len(b.userList),
               sent |-> Cardinality({k \in 1..Len(b.results) : b.results[k].success}),
               failed |-> Cardinality({k \in 1..Len(b.results) : ~b.results[k].success}),
               emailType |-> b.emailType]]

\* lines 626-653 after an entry is known: push it, then wait for the delay
\* unless this was the last user.
bulkPushed(b, entry) ==
  LET b2 == [b EXCEPT !.results = Append(@, entry)] IN
  IF b.i < Len(b.userList) - 1
    THEN [b2 EXCEPT !.at = "delay"]
    ELSE bulkFinish([b2 EXCEPT !.i = @ + 1])

\* lines 599-623: the loop head at index b.i.
bulkEnter(b) ==
  IF b.i >= Len(b.userList) THEN bulkFinish(b)
  ELSE IF b.emailType \in KnownTypes THEN [b EXCEPT !.at = "send"]
  ELSE bulkPushed(b, bulkEntry(b, FALSE, "Unknown email type"))

BulkStart ==
  /\ bulk.at \in {"", "done"}
  /\ \E emailType \in BulkTypes, userList \in BulkLists :
       bulk' = bulkEnter([NoBulk EXCEPT !.emailType = emailType,
                                        !.userList = userList])
  /\ UNCHANGED <<users, tokens, issued, now, last, pc, call, loc, calls,
                 consumed, purged, superseded, jwtSecret, verdict, cronLog>>

\* A loop without the try/catch of lines 606 and 638-648.
BulkSendUncaught ==
  /\ bulk.at = "send"
  /\ \E outcome \in SendOutcomes :
       bulk' = CASE outcome = "sent" ->
                      bulkPushed(bulk, bulkEntry(bulk, TRUE, ""))
                 [] outcome = "failed" ->
                      bulkPushed(bulk, bulkEntry(bulk, FALSE, "send failed"))
                 [] OTHER -> [bulk EXCEPT !.at = "thrown"]
  /\ UNCHANGED <<users, tokens, issued, now, last, pc, call, loc, calls,
                 consumed, purged, superseded, jwtSecret, verdict, cronLog>>

\* The send call of lines 607-619 settles.
BulkSend ==
  /\ bulk.at = "send"
  /\ \E outcome \in SendOutcomes :
       bulk' = CASE outcome = "sent" ->
                      bulkPushed(bulk, bulkEntry(bulk, TRUE, ""))
                 [] outcome = "failed" ->
                      bulkPushed(bulk, bulkEntry(bulk, FALSE, "send failed"))
                 [] OTHER ->
                      bulkPushed(bulk, bulkEntry(bulk, FALSE, "thrown"))
  /\ UNCHANGED <<users, tokens, issued, now, last, pc, call, loc, calls,
                 consumed, purged, superseded, jwtSecret, verdict, cronLog>>

\* The delay of lines 651-653 elapses.
BulkDelay ==
  /\ bulk.at = "delay"
  /\ bulk' = bulkEnter([bulk EXCEPT !.i = @ + 1])
  /\ UNCHANGED <<users, tokens, issued, now, last, pc, call, loc, calls,
                 consumed, purged, superseded, jwtSecret, verdict, cronLog>>

BulkNext == BulkStart \/ BulkSend \/ BulkDelay

BulkSpec == Init /\ [][BulkNext]_vars

\* C39: sendBulkEmails handles every user of the input list exactly once
\* and in input order even when a send fails or throws: while it runs it has
\* pushed one entry for each user before the loop index, entry k being the
\* one of userList[k] with index k and total the length of the list; it
\* never ends by an exception; when it has returned there is one entry per
\* user and summary.sent + summary.failed = summary.total = the number of
\* users; and with an unknown email type every entry is a failure with the
\* error 'Unknown email type'.
C39_BulkHandlesEveryUserOnce ==
  /\ bulk.at # "thrown"
  /\ bulk.at \in {"send", "delay", "done"} =>
       /\ Len(bulk.results) = (IF bulk.at = "send" THEN bulk.i
                               ELSE IF bulk.at = "delay" THEN bulk.i + 1
                               ELSE Len(bulk.userList))
       /\ \A k \in 1..Len(bulk.results) :
            /\ bulk.results[k].index = k
            /\ bulk.results[k].total = Len(bulk.userList)
            /\ bulk.results[k].user = bulk.userList[k].email
            /\ bulk.results[k].name = bulk.userList[k].name
            /\ bulk.emailType \notin KnownTypes =>
                 /\ ~bulk.results[k].success
                 /\ bulk.results[k].error = "Unknown email type"
  /\ bulk.at = "done" =>
       /\ bulk.summary.total = Len(bulk.userList)
       /\ bulk.summary.sent + bulk.summary.failed = bulk.summary.total
       /\ bulk.summary.emailType = bulk.emailType

\* A finished call over three users, two of them the same one, whose
\* second send threw and whose third failed.
C39_Witness ==
  /\ bulk.at = "done"
  /\ Len(bulk.userList) = MaxBulk
  /\ bulk.userList[1] = bulk.userList[3]
  /\ bulk.results[1].success
  /\ bulk.results[2].error = "thrown"
  /\ bulk.results[3].error = "send failed"
  /\ bulk.summary.sent = 1 /\ bulk.summary.failed = 2

====
